---- MODULE Spec2Model ----
(***************************************************************************)
(* ValutaTrade Hub: the settlement path (PortfolioManager.buy_currency,    *)
(* sell_currency, deposit_currency), the session (AuthManager) and the     *)
(* command handlers of ValutaTradeCLI, over the three persisted files      *)
(* users.json, portfolios.json and exchange_rates.json, and the rate       *)
(* refresh of parser_service with its history file rates.json.             *)
(*                                                                         *)
(* Money is modelled in whole units; a rate is the exact fraction          *)
(* [num, den] of the float the code stores.                                *)
(***************************************************************************)
EXTENDS Integers, Sequences, FiniteSets, TLC

VARIABLES users, portfolios, rates, history, current_user, scheduler, op

vars == <<users, portfolios, rates, history, current_user, scheduler, op>>

(* ------------------------------ bounds --------------------------------- *)
MaxAmount == 2
MaxBalance == 2
MaxUsers == 2

Amounts == (0 - 1)..MaxAmount
\* the user ids PortfolioManager is called with
UserIds == {1, 2}
Usernames == {"alice", "bob"}
\* "abc" is shorter than the minimum and doubles as a wrong password
Passwords == {"abc", "pw12"}
\* the values secrets.token_hex(8) takes in the model
Salts == {"s1"}
\* codes as typed by a caller: a registered code, a registered code in
\* lower case and an unregistered code
Codes == {"USD", "eur", "XXX"}

(* ------------------------- strings and settings ------------------------ *)
\* str.upper() on the codes of the model
upper(code) ==
    CASE code = "eur" -> "EUR"
      [] code = "usd" -> "USD"
      [] code = "xxx" -> "XXX"
      [] OTHER -> code

\* str.strip() on the usernames of the model
strip(username) ==
    CASE username = " alice" -> "alice"
      [] OTHER -> username

\* len(password)
len(password) ==
    CASE password = "abc" -> 3
      [] OTHER -> 4

password_min_length == 4

EmptyFcn == [x \in {} |-> 0]

(* ------------------------------ currencies ----------------------------- *)
\* the registry, restricted to the codes the model trades or prices
CURRENCY_REGISTRY == {"USD", "EUR", "RUB"}

\* variant: the lookup falls back to a default currency instead of raising
get_currency_default(code) == "ok"

\* get_currency raises CurrencyNotFoundError for a code whose upper-cased
\* form is not in the registry
get_currency(code) ==
    IF upper(code) \in CURRENCY_REGISTRY THEN "ok" ELSE "CurrencyNotFoundError"

(* --------------------------- Wallet / Portfolio ------------------------ *)
\* a Portfolio's _wallets: a function from upper-case codes to balances

Portfolio_get_wallet(wallets, code) == upper(code) \in DOMAIN wallets

\* variant: an existing wallet is replaced by a new, empty one
Portfolio_add_currency_overwrite(wallets, code) ==
    [raised |-> "none",
     wallets |-> [c \in DOMAIN wallets \cup {upper(code)} |->
                     IF c = upper(code) THEN 0 ELSE wallets[c]]]

Portfolio_add_currency(wallets, code) ==
    IF upper(code) \in DOMAIN wallets
    THEN [raised |-> "ValueError", wallets |-> wallets]
    ELSE [raised |-> "none", wallets |-> wallets @@ (upper(code) :> 0)]

\* variant: the amount is added without the amount check
Wallet_deposit_unchecked(balance, amount) ==
    [raised |-> "none", balance |-> balance + amount]

Wallet_deposit(balance, amount) ==
    IF amount <= 0
    THEN [raised |-> "ValueError", balance |-> balance]
    ELSE [raised |-> "none", balance |-> balance + amount]

\* variant: the amount is taken without the funds check
Wallet_withdraw_unchecked(balance, amount) ==
    IF amount <= 0
    THEN [raised |-> "ValueError", balance |-> balance]
    ELSE [raised |-> "none", balance |-> balance - amount]

\* variant: the funds check also refuses the whole balance
Wallet_withdraw_strict(balance, amount) ==
    IF amount <= 0 \/ amount >= balance
    THEN [raised |-> "ValueError", balance |-> balance]
    ELSE [raised |-> "none", balance |-> balance - amount]

Wallet_withdraw(balance, amount) ==
    IF amount <= 0 \/ amount > balance
    THEN [raised |-> "ValueError", balance |-> balance]
    ELSE [raised |-> "none", balance |-> balance - amount]

\* the wallet of a code, created with balance 0 when absent
get_or_create(wallets, code) ==
    IF Portfolio_get_wallet(wallets, code)
    THEN wallets
    ELSE Portfolio_add_currency(wallets, code).wallets

(* -------------------------- portfolios.json ---------------------------- *)
\* _safe_load_portfolios: the file's dict, {} when the file is absent
safe_load_portfolios(file) == file

\* create_portfolio: adds and saves an empty portfolio when the user has none
create_portfolio(file, user_id) ==
    IF user_id \in DOMAIN safe_load_portfolios(file)
    THEN file
    ELSE safe_load_portfolios(file) @@ (user_id :> EmptyFcn)

\* get_portfolio: the file after the call and the Portfolio it returns
get_portfolio(file, user_id) ==
    [file |-> create_portfolio(file, user_id),
     wallets |-> create_portfolio(file, user_id)[user_id]]

\* variant: the dict written holds the entry of the user alone
save_portfolio_data_only_own(file, user_id, wallets) == user_id :> wallets

\* save_portfolio builds the dict that _safe_save_portfolios writes
save_portfolio_data(file, user_id, wallets) ==
    [u \in DOMAIN safe_load_portfolios(file) \cup {user_id} |->
        IF u = user_id THEN wallets ELSE safe_load_portfolios(file)[u]]

(* ------------------------- exchange_rates.json ------------------------- *)
\* no file; last_refresh counts on the clock of the model
NoRatesFile == [exists |-> FALSE, pairs |-> EmptyFcn, last_refresh |-> 0]

\* _update_all_rates: the stub store, one USD_X record per non-USD currency
\* (USD_EUR: 0.93, USD_RUB: 90.0), stamped with the time of its creation,
\* from which the clock of the model counts
update_all_rates ==
    [exists |-> TRUE,
     pairs |-> (<<"USD", "EUR">> :> [num |-> 93, den |-> 100,
                                     updated_at |-> 0, source |-> "stub"])
               @@ (<<"USD", "RUB">> :> [num |-> 90, den |-> 1,
                                        updated_at |-> 0, source |-> "stub"]),
     last_refresh |-> 0]

\* RateManager.__init__ creates the store when the file does not exist
RateManager_init(file) == IF file.exists THEN file ELSE update_all_rates

NoRate == [num |-> 0, den |-> 1]

\* RateManager defines no get_rate: the attribute lookup raises
get_rate(file, from_code, to_code) ==
    [raised |-> "AttributeError", rate |-> NoRate]

\* get_rate_with_info: CurrencyNotFoundError is re-raised, every other
\* exception becomes RateUnavailableError
get_rate_with_info(file, from_code, to_code) ==
    IF get_currency(from_code) # "ok" \/ get_currency(to_code) # "ok"
    THEN [raised |-> "CurrencyNotFoundError", rate |-> NoRate]
    ELSE IF get_rate(file, from_code, to_code).raised # "none"
         THEN [raised |-> "RateUnavailableError", rate |-> NoRate]
         ELSE [raised |-> "none", rate |-> get_rate(file, from_code, to_code).rate]

(* ------------------------------ operations ----------------------------- *)
\* RatesScheduler.__init__: no loop thread, the stop event not set; the
\* schedule package holds no job, and no scheduled_update has run yet
RatesScheduler_init ==
    [scheduler_thread |-> 0, stop_event |-> FALSE, jobs |-> 0,
     threads |-> <<>>,
     last_update |-> [by |-> "none", invoked |-> FALSE, logged |-> "none"]]

Terminal == {"idle", "done", "failed", "crashed"}

NoOp ==
    [kind |-> "none", via |-> "none", user_id |-> 0, code |-> "USD",
     amount |-> 0, pc |-> "idle", result |-> "none", rc |-> 0 - 1,
     wallets |-> EmptyFcn, rate |-> NoRate, tmp |-> EmptyFcn,
     session |-> 0, pre |-> EmptyFcn, pre_rates |-> NoRatesFile,
     stages |-> <<>>, pre_wallets |-> EmptyFcn, to |-> "USD", now |-> 0,
     cache |-> EmptyFcn,
     source |-> "none", attempt |-> 0,
     requests |-> [c \in {"exchangerate", "coingecko"} |-> 0],
     sleeps |-> [c \in {"exchangerate", "coingecko"} |-> 0],
     fiat |-> "none", crypto |-> "none", all_rates |-> <<>>,
     max_history |-> 0, pre_history |-> <<>>, pre_users |-> <<>>,
     username |-> "", password |-> "", seen |-> NoRatesFile,
     utc_offset |-> 0, writer |-> "none", written_at |-> 0,
     updated_at |-> [digits |-> 0, suffix |-> ""], failed_save |-> "none",
     rates_cache |-> [loaded |-> FALSE, data |-> NoRatesFile]]

\* a call of a PortfolioManager method, at its first statement
Begin(kind, via, user_id, code, amount) ==
    [NoOp EXCEPT !.kind = kind, !.via = via, !.user_id = user_id,
                 !.code = code, !.amount = amount, !.pc = "validate",
                 !.session = current_user, !.pre = portfolios,
                 !.pre_rates = rates]

\* the return code of ValutaTradeCLI.buy / sell: every exception gives 1
cli_trade_rc(result) == IF result = "SUCCESS" THEN 0 ELSE 1

\* the call returns or raises; its locals are dropped
Finish(o, result) ==
    [o EXCEPT !.pc = IF result = "SUCCESS" THEN "done" ELSE "failed",
              !.result = result,
              !.rc = IF o.via = "cli" THEN cli_trade_rc(result) ELSE o.rc,
              !.wallets = EmptyFcn, !.rate = NoRate, !.tmp = EmptyFcn]

Init ==
    /\ users = <<>>
    /\ portfolios = EmptyFcn
    /\ rates \in {NoRatesFile, update_all_rates}
    /\ history = <<>>
    /\ scheduler = RatesScheduler_init
    /\ current_user = 0
    /\ op = NoOp

\* the balance a wallet holds, 0 when the portfolio or the wallet is absent
BalanceOf(file, user_id, code) ==
    IF user_id \in DOMAIN file /\ upper(code) \in DOMAIN file[user_id]
    THEN file[user_id][upper(code)]
    ELSE 0

(* ---------------- PortfolioManager: the calls, step by step ------------ *)
\* PortfolioManager.buy_currency is called
buy_currency(user_id, code, amount) ==
    /\ op.pc \in Terminal
    /\ op' = Begin("buy", "api", user_id, code, amount)
    /\ UNCHANGED <<scheduler, history, users, portfolios, rates, current_user>>

\* PortfolioManager.sell_currency is called
sell_currency(user_id, code, amount) ==
    /\ op.pc \in Terminal
    /\ op' = Begin("sell", "api", user_id, code, amount)
    /\ UNCHANGED <<scheduler, history, users, portfolios, rates, current_user>>

\* PortfolioManager.deposit_currency is called (balances stay within the
\* bound of the model)
deposit_currency(user_id, code, amount) ==
    /\ op.pc \in Terminal
    /\ BalanceOf(portfolios, user_id, code) + amount <= MaxBalance
    /\ op' = Begin("deposit", "api", user_id, code, amount)
    /\ UNCHANGED <<scheduler, history, users, portfolios, rates, current_user>>

\* variant: the currency code is validated before the amount
ValidateStep_currency_first(o) ==
    IF get_currency(o.code) # "ok" THEN Finish(o, "CurrencyNotFoundError")
    ELSE IF o.amount <= 0 THEN Finish(o, "InvalidAmountError")
    ELSE [o EXCEPT !.pc = "load", !.stages = Append(@, "VALIDATE")]

\* amount > 0, then get_currency(currency_code)
ValidateStep(o) ==
    IF o.amount <= 0 THEN Finish(o, "InvalidAmountError")
    ELSE IF get_currency(o.code) # "ok" THEN Finish(o, "CurrencyNotFoundError")
    ELSE [o EXCEPT !.pc = "load", !.stages = Append(@, "VALIDATE")]

Validate ==
    /\ op.pc = "validate"
    /\ op' = ValidateStep(op)
    /\ UNCHANGED <<scheduler, history, users, portfolios, rates, current_user>>

\* portfolio = self.get_portfolio(user_id)
LoadStep(o, file) ==
    [op |-> [o EXCEPT !.pc = "wallet",
                      !.wallets = get_portfolio(file, o.user_id).wallets],
     file |-> get_portfolio(file, o.user_id).file]

LoadPortfolio ==
    /\ op.pc = "load"
    /\ op' = LoadStep(op, portfolios).op
    /\ portfolios' = LoadStep(op, portfolios).file
    /\ UNCHANGED <<scheduler, history, users, rates, current_user>>

\* buy: the USD wallet must exist
buy_check_wallet(o) ==
    IF ~Portfolio_get_wallet(o.wallets, "USD")
    THEN Finish(o, "WalletNotFoundError")
    ELSE [o EXCEPT !.pc = "price"]

\* variant: sell leaves the funds check to the debit that follows the rate
\* lookup
sell_check_wallet_no_funds_check(o) ==
    IF ~Portfolio_get_wallet(o.wallets, o.code)
    THEN Finish(o, "WalletNotFoundError")
    ELSE [o EXCEPT !.pc = "price"]

\* sell: the wallet must exist and hold the amount
sell_check_wallet(o) ==
    IF ~Portfolio_get_wallet(o.wallets, o.code)
    THEN Finish(o, "WalletNotFoundError")
    ELSE IF o.wallets[upper(o.code)] < o.amount
    THEN Finish(o, "InsufficientFundsError")
    ELSE [o EXCEPT !.pc = "price"]

\* variant: sell withdraws and saves as soon as the funds check has passed,
\* before the rate is known
CheckWalletStep_eager_debit(o, file) ==
    LET c == upper(o.code)
        r == sell_check_wallet(o)
        w == [o.wallets EXCEPT ![c] = Wallet_withdraw(@, o.amount).balance]
    IN IF o.kind = "sell" /\ r.pc = "price"
       THEN [op |-> [r EXCEPT !.wallets = w],
             file |-> save_portfolio_data(file, o.user_id, w)]
       ELSE [op |-> CASE o.kind = "buy" -> buy_check_wallet(o)
                      [] o.kind = "sell" -> r
                      [] OTHER -> [o EXCEPT !.pc = "update"],
             file |-> file]

\* variant: sell gets or creates the wallet, as deposit does, and saves it
\* before it finds the balance too low
CheckWalletStep_autocreate(o, file) ==
    LET w == get_or_create(o.wallets, o.code)
    IN IF o.kind = "sell" /\ ~Portfolio_get_wallet(o.wallets, o.code)
       THEN [op |-> Finish(o, "InsufficientFundsError"),
             file |-> save_portfolio_data(file, o.user_id, w)]
       ELSE [op |-> CASE o.kind = "buy" -> buy_check_wallet(o)
                      [] o.kind = "sell" -> sell_check_wallet(o)
                      [] OTHER -> [o EXCEPT !.pc = "update"],
             file |-> file]

\* the checks between get_portfolio and the rate lookup; none of them
\* writes the file
CheckWalletStep(o, file) ==
    [op |-> CASE o.kind = "buy" -> buy_check_wallet(o)
              [] o.kind = "sell" -> sell_check_wallet(o)
              [] OTHER -> [o EXCEPT !.pc = "update"],
     file |-> file]

CheckWallet ==
    /\ op.pc = "wallet"
    /\ op' = CheckWalletStep(op, portfolios).op
    /\ portfolios' = CheckWalletStep(op, portfolios).file
    /\ UNCHANGED <<scheduler, history, users, rates, current_user>>

\* rate_mgr = RateManager(data_dir); rate_mgr.get_rate_with_info(code, "USD")
PriceStep(o, file) ==
    LET r == get_rate_with_info(RateManager_init(file), o.code, "USD")
    IN [op |-> IF r.raised \in {"CurrencyNotFoundError", "RateUnavailableError"}
               THEN Finish(o, "RateUnavailableError")
               ELSE IF r.raised # "none"
               THEN Finish(o, "ApiRequestError")
               ELSE [o EXCEPT !.pc = "update", !.rate = r.rate,
                              !.stages = Append(@, "PRICE")],
        rates |-> RateManager_init(file)]

Price ==
    /\ op.pc = "price"
    /\ op' = PriceStep(op, rates).op
    /\ rates' = PriceStep(op, rates).rates
    /\ UNCHANGED <<scheduler, history, users, portfolios, current_user>>

\* amount * rate["rate"], exact when rate.den divides the product
mul_rate(amount, rate) == (amount * rate.num) \div rate.den

\* buy: funds check, usd_wallet.withdraw(cost_usd), target_wallet.deposit
buy_update(o) ==
    LET cost_usd == mul_rate(o.amount, o.rate)
        w1 == [o.wallets EXCEPT !["USD"] = Wallet_withdraw(@, cost_usd).balance]
        w2 == get_or_create(w1, o.code)
        c == upper(o.code)
    IN IF o.wallets["USD"] * o.rate.den < o.amount * o.rate.num
       THEN Finish(o, "InsufficientFundsError")
       ELSE IF Wallet_withdraw(o.wallets["USD"], cost_usd).raised # "none"
       THEN Finish(o, "ValueError")
       ELSE [o EXCEPT !.pc = "save",
                      !.wallets = [w2 EXCEPT ![c] = Wallet_deposit(@, o.amount).balance],
                      !.stages = @ \o <<"DEBIT", "CREDIT">>]

\* sell: wallet.withdraw(amount), usd_wallet.deposit(revenue_usd)
sell_update(o) ==
    LET revenue_usd == mul_rate(o.amount, o.rate)
        c == upper(o.code)
        w1 == [o.wallets EXCEPT ![c] = Wallet_withdraw(@, o.amount).balance]
        w2 == get_or_create(w1, "USD")
    IN IF Wallet_withdraw(o.wallets[c], o.amount).raised # "none"
          \/ Wallet_deposit(w2["USD"], revenue_usd).raised # "none"
       THEN Finish(o, "ValueError")
       ELSE [o EXCEPT !.pc = "save",
                      !.wallets = [w2 EXCEPT !["USD"] = Wallet_deposit(@, revenue_usd).balance],
                      !.stages = @ \o <<"DEBIT", "CREDIT">>]

\* deposit: get or create the wallet, wallet.deposit(amount)
deposit_update(o) ==
    LET c == upper(o.code)
        w1 == get_or_create(o.wallets, o.code)
    IN [o EXCEPT !.pc = "save",
                 !.wallets = [w1 EXCEPT ![c] = Wallet_deposit(@, o.amount).balance],
                 !.stages = Append(@, "CREDIT")]

\* the changes to the in-memory Portfolio
UpdateStep(o) ==
    CASE o.kind = "buy" -> buy_update(o)
      [] o.kind = "sell" -> sell_update(o)
      [] OTHER -> deposit_update(o)

UpdateWallets ==
    /\ op.pc = "update"
    /\ op' = UpdateStep(op)
    /\ UNCHANGED <<scheduler, history, users, portfolios, rates, current_user>>

\* save_portfolio, first half: load the file, replace the user's entry and
\* dump the dict to portfolios.json.tmp. Nothing ever reads the temp file,
\* so its content is kept with the call that wrote it.
WriteTemp ==
    /\ op.pc = "save"
    /\ op' = [op EXCEPT !.pc = "replace",
                        !.tmp = save_portfolio_data(portfolios, op.user_id, op.wallets)]
    /\ UNCHANGED <<scheduler, history, users, portfolios, rates, current_user>>

\* save_portfolio, second half: os.replace(temp_file, portfolios_file);
\* the method then returns its result dict
Replace ==
    /\ op.pc = "replace"
    /\ portfolios' = op.tmp
    /\ op' = Finish([op EXCEPT !.stages = @ \o <<"PERSIST", "DONE">>], "SUCCESS")
    /\ UNCHANGED <<scheduler, history, users, rates, current_user>>

\* the process dies in the middle of a call: memory (the session included)
\* is lost, the files stay as they are
Crash ==
    /\ op.pc \notin Terminal
    /\ op' = [op EXCEPT !.pc = "crashed", !.result = "crash",
                        !.wallets = EmptyFcn, !.rate = NoRate]
    /\ current_user' = 0
    /\ UNCHANGED <<scheduler, history, users, portfolios, rates>>

(* ------------------------------ AuthManager ---------------------------- *)
\* sha256(password + salt), as an injective pairing
hash(password, salt) == <<password, salt>>

\* variant: the increment is lost, the new id is the largest stored one
max_user_id_no_increment(us) ==
    IF us = <<>> THEN 0
    ELSE (CHOOSE m \in {us[i].user_id : i \in 1..Len(us)} :
             \A i \in 1..Len(us) : us[i].user_id <= m) - 1

RECURSIVE max_user_id(_)
max_user_id(us) ==
    IF us = <<>> THEN 0
    ELSE IF Head(us).user_id > max_user_id(Tail(us))
         THEN Head(us).user_id
         ELSE max_user_id(Tail(us))

\* AuthManager.register: the users and portfolios files after the call
AuthManager_register(us, file, username, password, salt) ==
    IF len(password) < password_min_length
    THEN [raised |-> "ValueError", users |-> us, file |-> file]
    ELSE IF \E i \in 1..Len(us) : us[i].username = username
    THEN [raised |-> "UsernameTakenError", users |-> us, file |-> file]
    ELSE LET user_id == IF us # <<>> THEN max_user_id(us) + 1 ELSE 1
         IN [raised |-> "none",
             users |-> Append(us, [user_id |-> user_id,
                                   username |-> strip(username),
                                   hashed_password |-> hash(password, salt),
                                   salt |-> salt]),
             file |-> create_portfolio(file, user_id)]

\* the first stored user with the username, 0 when there is none
find_user(us, username) ==
    IF \E i \in 1..Len(us) : us[i].username = username
    THEN CHOOSE i \in 1..Len(us) :
            /\ us[i].username = username
            /\ \A j \in 1..(i - 1) : us[j].username # username
    ELSE 0

\* AuthManager.login: the exception raised and the user logged in
AuthManager_login(us, username, password) ==
    IF find_user(us, username) = 0
    THEN [raised |-> "UserNotFoundError", user_id |-> 0]
    ELSE IF hash(password, us[find_user(us, username)].salt)
              # us[find_user(us, username)].hashed_password
    THEN [raised |-> "InvalidPasswordError", user_id |-> 0]
    ELSE [raised |-> "none", user_id |-> us[find_user(us, username)].user_id]

AuthManager_is_logged_in(session) == session # 0

(* ----------------------------- ValutaTradeCLI -------------------------- *)
\* a command handler that ran to its end within one step
Command(kind, code, amount, result, rc) ==
    [NoOp EXCEPT !.kind = kind, !.via = "cli", !.user_id = current_user,
                 !.code = code, !.amount = amount,
                 !.pc = IF rc = 0 THEN "done" ELSE "failed",
                 !.result = result, !.rc = rc,
                 !.session = current_user, !.pre = portfolios,
                 !.pre_rates = rates]

\* ValutaTradeCLI.__init__, at each start of the program: a fresh
\* AuthManager and a RateManager, which creates the rate store if missing
ValutaTradeCLI_init ==
    /\ op.pc \in Terminal
    /\ current_user' = 0
    /\ rates' = RateManager_init(rates)
    /\ op' = NoOp
    /\ UNCHANGED <<scheduler, history, users, portfolios>>

\* ValutaTradeCLI.register: only ValueError is caught (rc 1); any other
\* exception leaves the handler (rc 2)
register(username, password) ==
    /\ op.pc \in Terminal
    /\ Len(users) < MaxUsers
    /\ \E salt \in Salts :
        LET r == AuthManager_register(users, portfolios, username, password, salt)
            rc == IF len(password) < 4 THEN 1
                  ELSE IF r.raised = "none" THEN 0
                  ELSE IF r.raised = "ValueError" THEN 1 ELSE 2
        IN /\ users' = IF len(password) < 4 THEN users ELSE r.users
           /\ portfolios' = IF len(password) < 4 THEN portfolios ELSE r.file
           /\ op' = Command("register", "USD", 0,
                            IF len(password) < 4 THEN "ValueError"
                            ELSE IF r.raised = "none" THEN "SUCCESS" ELSE r.raised,
                            rc)
    /\ UNCHANGED <<scheduler, history, rates, current_user>>

\* variant: a failed login ends the session
login_clears_session(username, password) ==
    /\ op.pc \in Terminal
    /\ LET r == AuthManager_login(users, username, password)
       IN /\ current_user' = r.user_id
          /\ op' = [Command("login", "USD", 0,
                            IF r.raised = "none" THEN "SUCCESS" ELSE r.raised,
                            IF r.raised = "none" THEN 0
                            ELSE IF r.raised = "ValueError" THEN 1 ELSE 2)
                      EXCEPT !.username = username, !.password = password]
    /\ UNCHANGED <<scheduler, history, users, portfolios, rates>>

\* ValutaTradeCLI.login -> AuthManager.login: current_user is assigned
\* after both checks passed
login(username, password) ==
    /\ op.pc \in Terminal
    /\ LET r == AuthManager_login(users, username, password)
       IN /\ current_user' = IF r.raised = "none" THEN r.user_id ELSE current_user
          /\ op' = [Command("login", "USD", 0,
                            IF r.raised = "none" THEN "SUCCESS" ELSE r.raised,
                            IF r.raised = "none" THEN 0
                            ELSE IF r.raised = "ValueError" THEN 1 ELSE 2)
                      EXCEPT !.username = username, !.password = password]
    /\ UNCHANGED <<scheduler, history, users, portfolios, rates>>

\* InteractiveCLI.do_logout -> AuthManager.logout
logout ==
    /\ op.pc \in Terminal
    /\ current_user' = 0
    /\ op' = Command("logout", "USD", 0, "SUCCESS", 0)
    /\ UNCHANGED <<scheduler, history, users, portfolios, rates>>

\* variant: the handler goes to the PortfolioManager without asking the
\* AuthManager
cli_trade_no_login_check(kind, code, amount) ==
    IF amount <= 0
    THEN Command(kind, upper(code), amount, "InvalidAmount", 1)
    ELSE Begin(kind, "cli", current_user, upper(code), amount)

\* the checks of ValutaTradeCLI.buy and sell before the PortfolioManager
\* call: the rejected command, or the call with the upper-cased code
cli_trade(kind, code, amount) ==
    IF ~AuthManager_is_logged_in(current_user)
    THEN Command(kind, upper(code), amount, "NotLoggedIn", 1)
    ELSE IF amount <= 0
    THEN Command(kind, upper(code), amount, "InvalidAmount", 1)
    ELSE Begin(kind, "cli", current_user, upper(code), amount)

\* ValutaTradeCLI.buy
buy(code, amount) ==
    /\ op.pc \in Terminal
    /\ op' = cli_trade("buy", code, amount)
    /\ UNCHANGED <<scheduler, history, users, portfolios, rates, current_user>>

\* ValutaTradeCLI.sell
sell(code, amount) ==
    /\ op.pc \in Terminal
    /\ op' = cli_trade("sell", code, amount)
    /\ UNCHANGED <<scheduler, history, users, portfolios, rates, current_user>>

\* ValutaTradeCLI.show_portfolio: the file after the command and its return
\* code; the first wallet that is not the base currency needs
\* rate_manager.get_rate, whose exception is caught and gives 1
cli_show_portfolio(session, file, ratesfile, base) ==
    IF ~AuthManager_is_logged_in(session)
    THEN [file |-> file, rc |-> 1, result |-> "NotLoggedIn"]
    ELSE LET g == get_portfolio(file, session)
         IN IF \A c \in DOMAIN g.wallets :
                  \/ c = upper(base)
                  \/ get_rate(ratesfile, c, upper(base)).raised = "none"
            THEN [file |-> g.file, rc |-> 0, result |-> "SUCCESS"]
            ELSE [file |-> g.file, rc |-> 1, result |-> "Exception"]

show_portfolio(base) ==
    /\ op.pc \in Terminal
    /\ LET r == cli_show_portfolio(current_user, portfolios, rates, base)
       IN /\ portfolios' = r.file
          /\ op' = Command("show", upper(base), 0, r.result, r.rc)
    /\ UNCHANGED <<scheduler, history, users, rates, current_user>>

\* ValutaTradeCLI.get_rate: equal codes are answered at once; any other pair
\* needs rate_manager.get_rate, whose exception is caught and gives 1
ValutaTradeCLI_get_rate(from_code, to_code) ==
    /\ op.pc \in Terminal
    /\ LET r == get_rate(rates, upper(from_code), upper(to_code))
       IN op' = IF upper(from_code) = upper(to_code)
                THEN [Command("get_rate", upper(from_code), 0, "SUCCESS", 0)
                        EXCEPT !.to = upper(to_code),
                               !.rate = [num |-> 1, den |-> 1]]
                ELSE IF r.raised # "none"
                THEN [Command("get_rate", upper(from_code), 0, "Exception", 1)
                        EXCEPT !.to = upper(to_code)]
                ELSE [Command("get_rate", upper(from_code), 0, "SUCCESS", 0)
                        EXCEPT !.to = upper(to_code), !.rate = r.rate]
    /\ UNCHANGED <<scheduler, history, users, portfolios, rates, current_user>>

\* PortfolioManager used as a library on a data directory
Next ==
    \/ \E u \in UserIds, c \in Codes, a \in Amounts : buy_currency(u, c, a)
    \/ \E u \in UserIds, c \in Codes, a \in Amounts : sell_currency(u, c, a)
    \/ \E u \in UserIds, c \in Codes, a \in Amounts : deposit_currency(u, c, a)
    \/ Validate
    \/ LoadPortfolio
    \/ CheckWallet
    \/ Price
    \/ UpdateWallets
    \/ WriteTemp
    \/ Replace
    \/ Crash

Spec == Init /\ [][Next]_vars

\* the command-line program: the state after ValutaTradeCLI() was built
InitCLI ==
    /\ users = <<>>
    /\ portfolios = EmptyFcn
    /\ rates = RateManager_init(NoRatesFile)
    /\ history = <<>>
    /\ scheduler = RatesScheduler_init
    /\ current_user = 0
    /\ op = NoOp

\* the commands of the shell; deposits arrive through
\* PortfolioManager.deposit_currency for the user who is logged in
NextCLI ==
    \/ ValutaTradeCLI_init
    \/ \E n \in Usernames, p \in Passwords : register(n, p)
    \/ \E n \in Usernames, p \in Passwords : login(n, p)
    \/ logout
    \/ \E c \in Codes, a \in Amounts : buy(c, a)
    \/ \E c \in Codes, a \in Amounts : sell(c, a)
    \/ \E c \in Codes : show_portfolio(c)
    \/ \E f \in Codes, t \in Codes : ValutaTradeCLI_get_rate(f, t)
    \/ \E c \in Codes, a \in 1..MaxAmount :
          current_user # 0 /\ deposit_currency(current_user, c, a)
    \/ Validate
    \/ LoadPortfolio
    \/ CheckWallet
    \/ Price
    \/ UpdateWallets
    \/ WriteTemp
    \/ Replace

SpecCLI == InitCLI /\ [][NextCLI]_vars


(* ----------------- Portfolio and Wallet objects in memory -------------- *)
\* Portfolio.from_dict: one Wallet per stored entry, under the stored key
\* and with the stored balance; neither is validated
Portfolio_from_dict(data) == [c \in DOMAIN data |-> data[c]]

\* a method of models.py that returned or raised: op.wallets is the
\* Portfolio object after the call, op.pre_wallets the object before it
ModelCall(kind, user_id, code, amount, raised, before, after) ==
    [NoOp EXCEPT !.kind = kind, !.via = "models", !.user_id = user_id,
                 !.code = code, !.amount = amount,
                 !.pc = IF raised = "none" THEN "done" ELSE "failed",
                 !.result = IF raised = "none" THEN "SUCCESS" ELSE raised,
                 !.wallets = after, !.pre_wallets = before,
                 !.pre = portfolios, !.pre_rates = rates]

\* a Portfolio object is at hand
ObjectAlive == op.via = "models" /\ op.pc \in {"done", "failed"}

\* Portfolio.from_dict on the stored entry of a user
from_dict(user_id) ==
    /\ op.pc \in Terminal
    /\ user_id \in DOMAIN safe_load_portfolios(portfolios)
    /\ op' = ModelCall("from_dict", user_id, "USD", 0, "none", EmptyFcn,
                       Portfolio_from_dict(safe_load_portfolios(portfolios)[user_id]))
    /\ UNCHANGED <<scheduler, history, users, portfolios, rates, current_user>>

\* Portfolio.add_currency on the object
add_currency(code) ==
    /\ ObjectAlive
    /\ op' = ModelCall("add_currency", op.user_id, code, 0,
                       Portfolio_add_currency(op.wallets, code).raised,
                       op.wallets,
                       Portfolio_add_currency(op.wallets, code).wallets)
    /\ UNCHANGED <<scheduler, history, users, portfolios, rates, current_user>>

\* Wallet.deposit on the wallet that Portfolio.get_wallet returns (balances
\* stay within the bound of the model)
deposit(code, amount) ==
    /\ ObjectAlive
    /\ Portfolio_get_wallet(op.wallets, code)
    /\ op.wallets[upper(code)] + amount <= MaxBalance
    /\ LET r == Wallet_deposit(op.wallets[upper(code)], amount)
       IN op' = ModelCall("Wallet.deposit", op.user_id, code, amount, r.raised,
                          op.wallets,
                          [op.wallets EXCEPT ![upper(code)] = r.balance])
    /\ UNCHANGED <<scheduler, history, users, portfolios, rates, current_user>>

\* Wallet.withdraw on the wallet that Portfolio.get_wallet returns
withdraw(code, amount) ==
    /\ ObjectAlive
    /\ Portfolio_get_wallet(op.wallets, code)
    /\ LET r == Wallet_withdraw(op.wallets[upper(code)], amount)
       IN op' = ModelCall("Wallet.withdraw", op.user_id, code, amount, r.raised,
                          op.wallets,
                          [op.wallets EXCEPT ![upper(code)] = r.balance])
    /\ UNCHANGED <<scheduler, history, users, portfolios, rates, current_user>>

\* the codes of the wallets the direct calls work on
WalletCodes == {"USD", "eur"}

\* the state after AuthManager, PortfolioManager and RateManager were built
\* on an empty data directory
InitModels ==
    /\ users = <<>>
    /\ portfolios = EmptyFcn
    /\ rates = RateManager_init(NoRatesFile)
    /\ history = <<>>
    /\ scheduler = RatesScheduler_init
    /\ current_user = 0
    /\ op = NoOp

\* models.py used directly on the portfolios that register and the
\* PortfolioManager calls for the first registered user leave in the store
NextModels ==
    \/ \E n \in Usernames, p \in Passwords : register(n, p)
    \/ \E c \in Codes, a \in Amounts :
          users # <<>> /\ buy_currency(users[1].user_id, c, a)
    \/ \E c \in Codes, a \in Amounts :
          users # <<>> /\ sell_currency(users[1].user_id, c, a)
    \/ \E c \in Codes, a \in Amounts :
          users # <<>> /\ deposit_currency(users[1].user_id, c, a)
    \/ Validate
    \/ LoadPortfolio
    \/ CheckWallet
    \/ Price
    \/ UpdateWallets
    \/ WriteTemp
    \/ Replace
    \/ \E u \in UserIds : from_dict(u)
    \/ \E c \in WalletCodes : add_currency(c)
    \/ \E c \in WalletCodes, a \in Amounts : deposit(c, a)
    \/ \E c \in WalletCodes, a \in Amounts : withdraw(c, a)

SpecModels == InitModels /\ [][NextModels]_vars

(* ------------------- RateManager and RatesCache in time ---------------- *)
\* the latest clock reading, counted in periods of rates_ttl_seconds
MaxTime == 2

\* SettingsLoader default "rates_ttl_seconds", in seconds
rates_ttl == 300

\* the codes rates are asked for
RateCodes == {"USD", "EUR", "RUB"}

\* the pairs _update_and_get_rate is called with: every pair of two codes,
\* and one pair of equal codes
LookupPairs ==
    {p \in RateCodes \X RateCodes : p[1] # p[2]} \cup {<<"USD", "USD">>}

\* RateManager._is_rate_fresh
is_rate_fresh(rate_data, now) ==
    (now - rate_data.updated_at) <= rates_ttl

\* _extract_rate_from_data
extract_rate_from_data(rate_data) == [num |-> rate_data.num, den |-> rate_data.den]

\* the values random gives to the base rates of _fetch_rate_from_source
base_rates(code) ==
    CASE code = "EUR" -> {[num |-> 92, den |-> 100], [num |-> 102, den |-> 100]}
      [] code = "RUB" -> {[num |-> 85, den |-> 1], [num |-> 95, den |-> 1]}
      [] OTHER -> {[num |-> 1, den |-> 1]}

\* _fetch_rate_from_source: from_rate / to_rate, both read from one drawing
\* of the base rates; nothing is stored
fetch_rate_from_source(from_code, to_code) ==
    IF upper(from_code) = upper(to_code)
    THEN {[num |-> 1, den |-> 1]}
    ELSE {[num |-> f.num * t.den, den |-> f.den * t.num] :
             f \in base_rates(upper(from_code)), t \in base_rates(upper(to_code))}

\* rate_data["updated_at"] = datetime.now().isoformat()
stamp(pairs, key, now) == [pairs EXCEPT ![key].updated_at = now]

\* _update_and_get_rate: the rate returned, the file after the call and
\* whether the value came from _fetch_rate_from_source (the rates of the
\* stored records are not 0)
update_and_get_rate(file, from_code, to_code, now, fetched) ==
    LET rs == file.pairs
        usd_from_key == <<"USD", upper(from_code)>>
        usd_to_key == <<"USD", upper(to_code)>>
        cross_key == <<upper(from_code), upper(to_code)>>
    IN IF upper(from_code) = "USD" /\ usd_to_key \in DOMAIN rs
       THEN [rate |-> extract_rate_from_data(rs[usd_to_key]),
             file |-> [file EXCEPT !.pairs = stamp(rs, usd_to_key, now)],
             fetched |-> FALSE]
       ELSE IF upper(from_code) # "USD" /\ upper(to_code) = "USD"
               /\ usd_from_key \in DOMAIN rs
       THEN [rate |-> [num |-> rs[usd_from_key].den, den |-> rs[usd_from_key].num],
             file |-> [file EXCEPT !.pairs = stamp(rs, usd_from_key, now)],
             fetched |-> FALSE]
       ELSE IF usd_from_key \in DOMAIN rs /\ usd_to_key \in DOMAIN rs
       THEN LET cross_rate == [num |-> rs[usd_from_key].den * rs[usd_to_key].num,
                               den |-> rs[usd_from_key].num * rs[usd_to_key].den]
                stamped == stamp(stamp(rs, usd_from_key, now), usd_to_key, now)
                record == [num |-> cross_rate.num, den |-> cross_rate.den,
                           updated_at |-> now, source |-> "calculated"]
            IN [rate |-> cross_rate,
                file |-> [file EXCEPT !.pairs =
                            [k \in DOMAIN stamped \cup {cross_key} |->
                                IF k = cross_key THEN record ELSE stamped[k]]],
                fetched |-> FALSE]
       ELSE [rate |-> fetched, file |-> file, fetched |-> TRUE]

\* _save_calculated_rate: the file with the record of the pair written
save_calculated_rate(file, from_code, to_code, rate, now) ==
    LET key == <<upper(from_code), upper(to_code)>>
        record == [num |-> rate.num, den |-> rate.den,
                   updated_at |-> now, source |-> "calculated"]
    IN [file EXCEPT !.pairs = [k \in DOMAIN file.pairs \cup {key} |->
                                  IF k = key THEN record ELSE file.pairs[k]]]

\* variant: a record of age exactly TTL is refused
RatesCache_get_pair_strict(data, from_code, to_code, now, ttl) ==
    IF <<upper(from_code), upper(to_code)>> \notin DOMAIN data
    THEN "None"
    ELSE IF now - data[<<upper(from_code), upper(to_code)>>].updated_at >= ttl
    THEN "None"
    ELSE "pair"

\* RatesCache.get_pair on the data the object holds
RatesCache_get_pair(data, from_code, to_code, now, ttl) ==
    IF <<upper(from_code), upper(to_code)>> \notin DOMAIN data
    THEN "None"
    ELSE IF now - data[<<upper(from_code), upper(to_code)>>].updated_at > ttl
    THEN "None"
    ELSE "pair"

\* RatesCache.update_pair with the default updated_at: the record is
\* replaced when it is absent or older
RatesCache_update_pair(data, from_code, to_code, rate, source, now) ==
    LET key == <<upper(from_code), upper(to_code)>>
        record == [num |-> rate.num, den |-> rate.den,
                   updated_at |-> now, source |-> source]
    IN IF key \notin DOMAIN data \/ now > data[key].updated_at
       THEN [k \in DOMAIN data \cup {key} |-> IF k = key THEN record ELSE data[k]]
       ELSE data

\* a method of RateManager or RatesCache that returned or raised at time
\* now; the RatesCache object lives on in op.cache
RateCall(kind, from_code, to_code, now, result, rate, how) ==
    [NoOp EXCEPT !.kind = kind, !.via = "rates", !.code = from_code,
                 !.to = to_code, !.now = now,
                 !.pc = IF result \in {"RateUnavailableError", "CurrencyNotFoundError"}
                        THEN "failed" ELSE "done",
                 !.result = result, !.rate = rate, !.stages = how,
                 !.cache = op.cache]

\* the clock readings a call may see: time does not go back
Clock == {t \in op.now..(MaxTime * rates_ttl) : t % rates_ttl = 0}

\* RateManager._update_and_get_rate is called
RateManager_update_and_get_rate(from_code, to_code) ==
    /\ op.pc \in Terminal
    /\ \E now \in Clock, fetched \in fetch_rate_from_source(from_code, to_code) :
          LET r == update_and_get_rate(RateManager_init(rates), from_code,
                                       to_code, now, fetched)
          IN /\ rates' = r.file
             /\ op' = RateCall("_update_and_get_rate", from_code, to_code, now,
                               "SUCCESS", r.rate,
                               IF r.fetched THEN <<"FETCH">> ELSE <<"STORE">>)
    /\ UNCHANGED <<scheduler, history, users, portfolios, current_user>>

\* RateManager.get_rate_with_info is called, as buy and sell call it
RateManager_get_rate_with_info(from_code, to_code) ==
    /\ op.pc \in Terminal
    /\ \E now \in Clock :
          LET r == get_rate_with_info(RateManager_init(rates), from_code, to_code)
          IN op' = RateCall("get_rate_with_info", from_code, to_code, now,
                            IF r.raised = "none" THEN "SUCCESS" ELSE r.raised,
                            r.rate, <<>>)
    /\ rates' = RateManager_init(rates)
    /\ UNCHANGED <<scheduler, history, users, portfolios, current_user>>

\* RateManager._is_rate_fresh is called on the stored record of a pair
RateManager_is_rate_fresh(from_code, to_code) ==
    /\ op.pc \in Terminal
    /\ <<from_code, to_code>> \in DOMAIN rates.pairs
    /\ \E now \in Clock :
          op' = RateCall("_is_rate_fresh", from_code, to_code, now,
                         IF is_rate_fresh(rates.pairs[<<from_code, to_code>>], now)
                         THEN "True" ELSE "False",
                         NoRate, <<>>)
    /\ UNCHANGED <<scheduler, history, users, portfolios, rates, current_user>>

\* the pairs whose derived rate a caller stores
DerivedPairs == {<<"EUR", "RUB">>}

\* the pairs the RatesCache object is used for
CachedPairs == {<<"USD", "EUR">>}

\* RateManager._save_calculated_rate is called with the rate derived from
\* the USD records of the store
RateManager_save_calculated_rate(from_code, to_code) ==
    /\ op.pc \in Terminal
    /\ <<"USD", from_code>> \in DOMAIN rates.pairs
    /\ <<"USD", to_code>> \in DOMAIN rates.pairs
    /\ \E now \in Clock :
          LET rate == [num |-> rates.pairs[<<"USD", from_code>>].den
                                  * rates.pairs[<<"USD", to_code>>].num,
                       den |-> rates.pairs[<<"USD", from_code>>].num
                                  * rates.pairs[<<"USD", to_code>>].den]
          IN /\ rates' = save_calculated_rate(rates, from_code, to_code, rate, now)
             /\ op' = RateCall("_save_calculated_rate", from_code, to_code,
                               now, "SUCCESS", rate, <<>>)
    /\ UNCHANGED <<scheduler, history, users, portfolios, current_user>>

\* RatesCache.update_pair on a RatesCache built with the TTL of the settings
RatesCache_update_pair_call(from_code, to_code) ==
    /\ op.pc \in Terminal
    /\ \E now \in Clock, rate \in base_rates(to_code) :
          op' = [RateCall("update_pair", from_code, to_code, now, "SUCCESS",
                          rate, <<>>)
                   EXCEPT !.cache = RatesCache_update_pair(op.cache, from_code,
                                                           to_code, rate, "api", now)]
    /\ UNCHANGED <<scheduler, history, users, portfolios, rates, current_user>>

\* RatesCache.get_pair on that object
RatesCache_get_pair_call(from_code, to_code) ==
    /\ op.pc \in Terminal
    /\ \E now \in Clock :
          op' = RateCall("get_pair", from_code, to_code, now,
                         RatesCache_get_pair(op.cache, from_code, to_code,
                                             now, rates_ttl),
                         NoRate, <<>>)
    /\ UNCHANGED <<scheduler, history, users, portfolios, rates, current_user>>

\* the state after RateManager() created the rate store, at time 0
InitRates ==
    /\ users = <<>>
    /\ portfolios = EmptyFcn
    /\ rates = RateManager_init(NoRatesFile)
    /\ history = <<>>
    /\ scheduler = RatesScheduler_init
    /\ current_user = 0
    /\ op = NoOp

\* the rate code used as a library while time passes
NextRates ==
    \/ \E p \in LookupPairs : RateManager_update_and_get_rate(p[1], p[2])
    \/ \E f \in RateCodes, t \in RateCodes : RateManager_get_rate_with_info(f, t)
    \/ \E f \in RateCodes, t \in RateCodes : RateManager_is_rate_fresh(f, t)
    \/ \E p \in DerivedPairs : RateManager_save_calculated_rate(p[1], p[2])
    \/ \E p \in CachedPairs : RatesCache_update_pair_call(p[1], p[2])
    \/ \E p \in CachedPairs : RatesCache_get_pair_call(p[1], p[2])

SpecRates == InitRates /\ [][NextRates]_vars

(* ------------------ parser_service: the refresh of rates --------------- *)
\* the longest history file a refresh starts from
MaxHistory == 2

\* ParserConfig.RETRY_ATTEMPTS
RETRY_ATTEMPTS == 3

\* ParserConfig.MAX_HISTORY_ENTRIES, the default
MAX_HISTORY_ENTRIES == 1000

\* the values of MAX_HISTORY_ENTRIES a ParserConfig is built with
ConfiguredCaps == {2, MAX_HISTORY_ENTRIES}

\* getattr(self, "MAX_HISTORY_ENTRIES", 1000) in save_to_history: self is
\* the RatesStorage, which has no such attribute
max_entries == 1000

\* the two clients of api_clients.RateManager, in the order get_all_rates
\* asks them
Clients == {"exchangerate", "coingecko"}

\* what one session.request(...) of _make_request ends with: a
\* RequestException (connection error, timeout, HTTP error status) or a
\* JSON body: one with the rates, one without usable rates (empty, or an
\* error body without the expected keys), one of a shape the client's
\* parsing raises on (a list, "conversion_rates": null, a coin mapped to a
\* number)
Outcomes == {"RequestException", "well_formed", "no_data", "wrong_shape"}

\* the rates a well-formed body holds for the configured currencies
well_formed_rates(client) ==
    IF client = "exchangerate"
    THEN << [pair |-> <<"USD", "EUR">>, num |-> 93, den |-> 100],
            [pair |-> <<"USD", "RUB">>, num |-> 90, den |-> 1] >>
    ELSE << [pair |-> <<"USD", "BTC">>, num |-> 60000, den |-> 1] >>

\* variant: after the last failed attempt the loop waits once more
make_request_sleep_always(attempt, outcome) ==
    IF attempt >= RETRY_ATTEMPTS
    THEN [next |-> "return", data |-> "None"]
    ELSE IF outcome # "RequestException"
    THEN [next |-> "return", data |-> outcome]
    ELSE [next |-> "sleep", data |-> "None"]

\* APIClientBase._make_request, one pass of the loop for the attempt with
\* this index: return response.json(), or return None after the last
\* attempt, or sleep; return None when range(RETRY_ATTEMPTS) is used up
make_request(attempt, outcome) ==
    IF attempt >= RETRY_ATTEMPTS
    THEN [next |-> "return", data |-> "None"]
    ELSE IF outcome # "RequestException"
    THEN [next |-> "return", data |-> outcome]
    ELSE IF attempt = RETRY_ATTEMPTS - 1
    THEN [next |-> "return", data |-> "None"]
    ELSE [next |-> "sleep", data |-> "None"]

\* ExchangeRateClient.get_fiat_rates / CoinGeckoClient.get_crypto_rates on
\* the data _make_request returned: {} for None and falsy data, the rates
\* of the configured currencies, or the exception the parsing raises
client_rates(client, data) ==
    CASE data = "None" -> [raised |-> "none", got |-> "failed", rates |-> <<>>]
      [] data = "no_data" -> [raised |-> "none", got |-> "no_data", rates |-> <<>>]
      [] data = "wrong_shape" -> [raised |-> "TypeError", got |-> "raised", rates |-> <<>>]
      [] OTHER -> [raised |-> "none", got |-> "batch",
                   rates |-> well_formed_rates(client)]

\* the entries of all_rates for the rates of one client
tagged(rs, source, type) ==
    [i \in 1..Len(rs) |-> [pair |-> rs[i].pair, num |-> rs[i].num,
                           den |-> rs[i].den, source |-> source, type |-> type]]

\* api_clients.RateManager.get_all_rates: the fiat rates, then the crypto
\* rates, each with the name of its client
get_all_rates(fiat_rates, crypto_rates) ==
    tagged(fiat_rates, "exchangerate", "fiat")
        \o tagged(crypto_rates, "coingecko", "crypto")

\* variant: the refresh gives up when either client came back empty
update_rates_check_any(fiat_rates, crypto_rates) ==
    IF fiat_rates = <<>> \/ crypto_rates = <<>> THEN "RuntimeError" ELSE "none"

\* RatesUpdater.update_rates: if not all_rates: raise RuntimeError
update_rates_check(fiat_rates, crypto_rates) ==
    IF get_all_rates(fiat_rates, crypto_rates) = <<>> THEN "RuntimeError" ELSE "none"

\* RatesStorage.save_current_rates(all_rates, source): the document written.
\* The value stored under "rate" is the whole entry of all_rates, so the
\* name of the client is kept below it (rate_source) and the record's own
\* source is the argument
save_current_rates(file, rs, source, now) ==
    LET written == {rs[i].pair : i \in 1..Len(rs)}
        entry(k) == rs[CHOOSE i \in 1..Len(rs) :
                          rs[i].pair = k /\ \A j \in (i + 1)..Len(rs) : rs[j].pair # k]
    IN [exists |-> TRUE,
        pairs |-> [k \in DOMAIN file.pairs \cup written |->
                     IF k \in written
                     THEN [num |-> entry(k).num, den |-> entry(k).den,
                           updated_at |-> now, source |-> source,
                           rate_source |-> entry(k).source]
                     ELSE file.pairs[k]],
        last_refresh |-> now]

\* what a reader of record["rate"] obtains: the number, or for a record
\* save_current_rates built from an entry of all_rates, that entry
record_rate(record) ==
    IF "rate_source" \in DOMAIN record
    THEN [is_number |-> FALSE, num |-> record.num, den |-> record.den,
          source |-> record.rate_source]
    ELSE [is_number |-> TRUE, num |-> record.num, den |-> record.den,
          source |-> "none"]

\* RatesStorage.save_to_history(all_rates, source): the list written
save_to_history(hist, rs, source, now) ==
    LET appended == hist \o [i \in 1..Len(rs) |->
                               [pair |-> rs[i].pair, num |-> rs[i].num,
                                den |-> rs[i].den, timestamp |-> now,
                                source |-> source]]
    IN IF Len(appended) > max_entries
       THEN SubSeq(appended, Len(appended) - max_entries + 1, Len(appended))
       ELSE appended

\* variant: the data is written into the file at the path itself, which is
\* empty until the dump is complete
atomic_write_in_place(target, data, empty) == [target |-> empty, tmp |-> data]

\* RatesStorage._atomic_write, up to the end of json.dump: the document is
\* in a temp file made by mkstemp, the file at the path is as it was
atomic_write(target, data, empty) == [target |-> target, tmp |-> data]

\* a call of RatesUpdater.update_rates at its first statement; the
\* RateManager object of the core lives on in op.rates_cache
ParserCall(kind, now, cap) ==
    [NoOp EXCEPT !.kind = kind, !.via = "parser", !.pc = "request",
                 !.source = "exchangerate", !.now = now,
                 !.max_history = cap, !.pre_rates = rates,
                 !.pre_history = history, !.pre_users = users,
                 !.pre = portfolios,
                 !.rates_cache = op.rates_cache]

\* the refresh raises: its locals are dropped
ParserRaise(o, error) ==
    [o EXCEPT !.pc = "failed", !.result = error, !.tmp = EmptyFcn]

\* RatesUpdater(config).update_rates() is called at time now with a config
\* whose MAX_HISTORY_ENTRIES is cap
update_rates(now, cap) ==
    /\ op.pc \in Terminal
    /\ Len(history) <= MaxHistory
    /\ op' = ParserCall("update_rates", now, cap)
    /\ UNCHANGED <<scheduler, history, users, portfolios, rates, current_user>>

\* one session.request of the _make_request in progress, and what the
\* client does with the data once _make_request returned
Request ==
    /\ op.pc = "request"
    /\ \E outcome \in Outcomes :
          LET r == make_request(op.attempt, outcome)
              o == [op EXCEPT !.requests[op.source] =
                                  IF op.attempt < RETRY_ATTEMPTS THEN @ + 1 ELSE @]
              c == client_rates(op.source, r.data)
          IN op' =
               IF r.next = "sleep" THEN [o EXCEPT !.pc = "sleep"]
               ELSE IF c.raised # "none"
               THEN ParserRaise([o EXCEPT ![IF op.source = "exchangerate"
                                           THEN "fiat" ELSE "crypto"] = c.got],
                                c.raised)
               ELSE IF op.source = "exchangerate"
               THEN [o EXCEPT !.fiat = c.got, !.source = "coingecko",
                              !.attempt = 0,
                              !.all_rates = c.rates]
               ELSE [o EXCEPT !.crypto = c.got, !.pc = "merge",
                              !.tmp = c.rates]
    /\ UNCHANGED <<scheduler, history, users, portfolios, rates, current_user>>

\* time.sleep(RETRY_DELAY), then the next attempt
Sleep ==
    /\ op.pc = "sleep"
    /\ op' = [op EXCEPT !.pc = "request", !.attempt = @ + 1,
                        !.sleeps[op.source] = @ + 1]
    /\ UNCHANGED <<scheduler, history, users, portfolios, rates, current_user>>

\* the end of get_all_rates and the check of update_rates; op.all_rates
\* holds the fiat rates and op.tmp the crypto rates until here
Merge ==
    /\ op.pc = "merge"
    /\ op' = IF update_rates_check(op.all_rates, op.tmp) # "none"
             THEN ParserRaise([op EXCEPT !.all_rates = <<>>],
                              update_rates_check(op.all_rates, op.tmp))
             ELSE [op EXCEPT !.pc = "save_rates", !.tmp = EmptyFcn,
                             !.all_rates = get_all_rates(op.all_rates, op.tmp)]
    /\ UNCHANGED <<scheduler, history, users, portfolios, rates, current_user>>

\* a file opened for writing and not written yet
EmptyRatesFile == [exists |-> TRUE, pairs |-> EmptyFcn, last_refresh |-> 0 - 1]

\* save_current_rates up to the end of json.dump in _atomic_write
WriteTempRates ==
    /\ op.pc = "save_rates"
    /\ LET w == atomic_write(rates,
                             save_current_rates(rates, op.all_rates, "api", op.now),
                             EmptyRatesFile)
       IN /\ rates' = w.target
          /\ op' = [op EXCEPT !.pc = "replace_rates", !.tmp = w.tmp]
    /\ UNCHANGED <<scheduler, history, users, portfolios, current_user>>

\* os.replace(tmp, RATES_FILE_PATH)
ReplaceRates ==
    /\ op.pc = "replace_rates"
    /\ rates' = op.tmp
    /\ op' = [op EXCEPT !.pc = "save_history", !.tmp = EmptyFcn]
    /\ UNCHANGED <<scheduler, history, users, portfolios, current_user>>

\* save_to_history up to the end of json.dump in _atomic_write
WriteTempHistory ==
    /\ op.pc = "save_history"
    /\ LET w == atomic_write(history,
                             save_to_history(history, op.all_rates, "api", op.now),
                             <<>>)
       IN /\ history' = w.target
          /\ op' = [op EXCEPT !.pc = "replace_history", !.tmp = w.tmp]
    /\ UNCHANGED <<scheduler, users, portfolios, rates, current_user>>

\* os.replace(tmp, HISTORY_FILE_PATH); update_rates returns its summary
ReplaceHistory ==
    /\ op.pc = "replace_history"
    /\ history' = op.tmp
    /\ op' = [op EXCEPT !.pc = "done", !.result = "SUCCESS", !.tmp = EmptyFcn]
    /\ UNCHANGED <<scheduler, users, portfolios, rates, current_user>>

\* RateManager._safe_load_rates of the core: the dict kept in _rates_cache
\* once a file was read, else the content of the file, else an empty dict
safe_load_rates(cache, file, now) ==
    IF cache.loaded THEN [data |-> cache.data, cache |-> cache]
    ELSE IF ~file.exists
    THEN [data |-> [exists |-> FALSE, pairs |-> EmptyFcn, last_refresh |-> now],
          cache |-> cache]
    ELSE [data |-> file, cache |-> [loaded |-> TRUE, data |-> file]]

\* a method of the RateManager object of the core returned at time now
ManagerCall(kind, from_code, to_code, now, doc, cache) ==
    [NoOp EXCEPT !.kind = kind, !.via = "rates", !.code = from_code,
                 !.to = to_code, !.now = now, !.pc = "done",
                 !.result = "SUCCESS", !.seen = doc, !.rates_cache = cache]

\* the RateManager of a running shell reads the store
RateManager_safe_load_rates ==
    /\ op.pc \in Terminal
    /\ \E now \in Clock :
          LET r == safe_load_rates(op.rates_cache, rates, now)
          IN op' = ManagerCall("_safe_load_rates", "USD", "USD", now,
                               r.data, r.cache)
    /\ UNCHANGED <<scheduler, history, users, portfolios, rates, current_user>>

\* the RateManager of a running shell stores a rate derived from the USD
\* records it reads: _save_calculated_rate loads through _safe_load_rates
\* and saves the dict it got, which becomes the cache
RateManager_save_calculated_rate_cached(from_code, to_code) ==
    /\ op.pc \in Terminal
    /\ \E now \in Clock :
          LET raw == safe_load_rates(op.rates_cache, rates, now).data
              rate == [num |-> raw.pairs[<<"USD", from_code>>].den
                                  * raw.pairs[<<"USD", to_code>>].num,
                       den |-> raw.pairs[<<"USD", from_code>>].num
                                  * raw.pairs[<<"USD", to_code>>].den]
              doc == save_calculated_rate(raw, from_code, to_code, rate, now)
          IN /\ <<"USD", from_code>> \in DOMAIN raw.pairs
             /\ <<"USD", to_code>> \in DOMAIN raw.pairs
             /\ rates' = [doc EXCEPT !.exists = TRUE]
             /\ op' = ManagerCall("_save_calculated_rate", from_code, to_code,
                                  now, raw,
                                  [loaded |-> TRUE,
                                   data |-> [doc EXCEPT !.exists = TRUE]])
    /\ UNCHANGED <<scheduler, history, users, portfolios, current_user>>

\* the data directory after a shell built its RateManager at time 0, which
\* created the store, or found the store of an earlier run
InitParser ==
    /\ users = <<>>
    /\ portfolios = EmptyFcn
    /\ rates = update_all_rates
    /\ history = <<>>
    /\ scheduler = RatesScheduler_init
    /\ current_user = 0
    /\ \E cache \in {[loaded |-> TRUE, data |-> update_all_rates],
                     [loaded |-> FALSE, data |-> NoRatesFile]} :
          op = [NoOp EXCEPT !.rates_cache = cache]

\* refreshes by RatesUpdater while the RateManager of a shell is alive
NextParser ==
    \/ \E now \in Clock, cap \in ConfiguredCaps : update_rates(now, cap)
    \/ Request
    \/ Sleep
    \/ Merge
    \/ WriteTempRates
    \/ ReplaceRates
    \/ WriteTempHistory
    \/ ReplaceHistory
    \/ RateManager_safe_load_rates
    \/ \E p \in DerivedPairs : RateManager_save_calculated_rate_cached(p[1], p[2])

SpecParser == InitParser /\ [][NextParser]_vars

\* the refresh as a running process: a request ends (response, error or
\* timeout) and a sleep ends
LiveParser == SpecParser /\ WF_vars(Request) /\ WF_vars(Sleep)

(* ------------------ parser_service: the scheduler ---------------------- *)
\* the threading.Thread objects one RatesScheduler creates
MaxThreads == 2

\* the attributes RatesScheduler.__init__ sets on the object
RatesScheduler_attributes == {"config", "updater", "scheduler_thread", "stop_event"}

\* Thread.is_alive() of self.scheduler_thread (0 is None)
is_alive(s, t) == t # 0 /\ s.threads[t] # "ended"

\* RatesScheduler.scheduled_update: self.update.update_rates() inside
\* try / except Exception: the attribute lookup raises AttributeError
\* before any call is made, the handler logs it and the method returns
scheduled_update(by) ==
    IF "update" \in RatesScheduler_attributes
    THEN [by |-> by, invoked |-> TRUE, logged |-> "none"]
    ELSE [by |-> by, invoked |-> FALSE, logged |-> "AttributeError"]

\* a method of RatesScheduler called on the main thread
SchedulerCall(kind, pc, result) ==
    [NoOp EXCEPT !.kind = kind, !.via = "scheduler", !.pc = pc,
                 !.result = result, !.pre_rates = rates,
                 !.pre_history = history, !.rates_cache = op.rates_cache]

\* RatesScheduler.start: return when the thread in scheduler_thread is
\* alive; else register a job, run scheduled_update, clear the event,
\* create and start a loop thread
start ==
    /\ op.pc \in Terminal
    /\ IF is_alive(scheduler, scheduler.scheduler_thread)
       THEN /\ scheduler' = scheduler
            /\ op' = SchedulerCall("start", "done", "already_running")
       ELSE /\ Len(scheduler.threads) < MaxThreads
            /\ scheduler' =
                  [scheduler EXCEPT !.jobs = @ + 1,
                                    !.last_update = scheduled_update("start"),
                                    !.stop_event = FALSE,
                                    !.threads = Append(@, "check"),
                                    !.scheduler_thread = Len(scheduler.threads) + 1]
            /\ op' = SchedulerCall("start", "done", "started")
    /\ UNCHANGED <<history, users, portfolios, rates, current_user>>

\* RatesScheduler.stop up to stop_event.set(); nothing when
\* scheduler_thread is None
stop ==
    /\ op.pc \in Terminal
    /\ IF scheduler.scheduler_thread = 0
       THEN /\ scheduler' = scheduler
            /\ op' = SchedulerCall("stop", "done", "not_running")
       ELSE /\ scheduler' = [scheduler EXCEPT !.stop_event = TRUE]
            /\ op' = SchedulerCall("stop", "join", "none")
    /\ UNCHANGED <<history, users, portfolios, rates, current_user>>

\* scheduler_thread.join(timeout=5) returns, because the thread has ended
\* or because 5 seconds passed while the thread was in run_pending or in
\* its sleep of 60 seconds; then scheduler_thread = None
join ==
    /\ op.pc = "join"
    /\ scheduler.threads[scheduler.scheduler_thread] \in {"ended", "run_pending", "sleep"}
    /\ op' = [op EXCEPT !.pc = "done",
                        !.result = IF is_alive(scheduler, scheduler.scheduler_thread)
                                   THEN "join_timed_out" ELSE "joined"]
    /\ scheduler' = [scheduler EXCEPT !.scheduler_thread = 0]
    /\ UNCHANGED <<history, users, portfolios, rates, current_user>>

\* _scheduler_loop of thread t: while not self.stop_event.is_set()
LoopCheck(t) ==
    /\ scheduler.threads[t] = "check"
    /\ scheduler' = [scheduler EXCEPT !.threads[t] =
                        IF scheduler.stop_event THEN "ended" ELSE "run_pending"]
    /\ UNCHANGED <<history, users, portfolios, rates, current_user, op>>

\* schedule.run_pending() in thread t: when the interval has passed, the
\* registered jobs run, each of them scheduled_update
RunPending(t) ==
    /\ scheduler.threads[t] = "run_pending"
    /\ \E due \in BOOLEAN :
          scheduler' = [scheduler EXCEPT
                          !.threads[t] = "sleep",
                          !.last_update = IF due /\ scheduler.jobs > 0
                                          THEN scheduled_update("loop") ELSE @]
    /\ UNCHANGED <<history, users, portfolios, rates, current_user, op>>

\* time.sleep(60) of thread t is over
LoopSleep(t) ==
    /\ scheduler.threads[t] = "sleep"
    /\ scheduler' = [scheduler EXCEPT !.threads[t] = "check"]
    /\ UNCHANGED <<history, users, portfolios, rates, current_user, op>>

\* RatesScheduler.run_once: self.updater.update_rates()
run_once == update_rates(0, MAX_HISTORY_ENTRIES)

\* a RatesScheduler on an empty rate store, as RatesStorage creates it
InitScheduler ==
    /\ users = <<>>
    /\ portfolios = EmptyFcn
    /\ rates = EmptyRatesFile
    /\ history = <<>>
    /\ scheduler = RatesScheduler_init
    /\ current_user = 0
    /\ op = NoOp

\* the calls of the main thread, the steps of a refresh run_once started,
\* and the steps of the loop threads
NextScheduler ==
    \/ start
    \/ stop
    \/ join
    \/ \E t \in 1..Len(scheduler.threads) : LoopCheck(t)
    \/ \E t \in 1..Len(scheduler.threads) : RunPending(t)
    \/ \E t \in 1..Len(scheduler.threads) : LoopSleep(t)
    \/ run_once
    \/ Request
    \/ Sleep
    \/ Merge
    \/ WriteTempRates
    \/ ReplaceRates
    \/ WriteTempHistory
    \/ ReplaceHistory

SpecScheduler == InitScheduler /\ [][NextScheduler]_vars

(* ------------- the timestamps of the rate store as strings ------------- *)
\* datetime.now(): the wall clock of the local zone, without tzinfo
datetime_now(t, utc_offset) == [wall |-> t + utc_offset, tzinfo |-> "None"]

\* datetime.now(timezone.utc)
datetime_now_utc(t) == [wall |-> t, tzinfo |-> "UTC"]

\* datetime.isoformat(): an aware value ends with its offset
isoformat(dt) ==
    [digits |-> dt.wall, suffix |-> IF dt.tzinfo = "UTC" THEN "+00:00" ELSE ""]

\* datetime.fromisoformat(): aware when the string ends with an offset
fromisoformat(string) ==
    [wall |-> string.digits,
     tzinfo |-> IF string.suffix = "+00:00" THEN "UTC" ELSE "None"]

\* a - b on datetimes: TypeError when one is aware and the other is not
datetime_sub(a, b) ==
    IF a.tzinfo # b.tzinfo
    THEN [raised |-> "TypeError", seconds |-> 0]
    ELSE [raised |-> "none", seconds |-> a.wall - b.wall]

\* the string a writer stores as updated_at at time t:
\* RatesStorage.save_current_rates and RatesCache.update_pair take
\* datetime.now(timezone.utc), RateManager takes datetime.now()
written_updated_at(writer, t, utc_offset) ==
    IF writer = "save_calculated_rate"
    THEN isoformat(datetime_now(t, utc_offset))
    ELSE isoformat(datetime_now_utc(t))

\* RateManager._is_rate_fresh on the stored string: any exception gives
\* False
is_rate_fresh_iso(updated_at, t, utc_offset) ==
    LET age == datetime_sub(datetime_now(t, utc_offset), fromisoformat(updated_at))
    IN IF age.raised # "none" THEN "False"
       ELSE IF age.seconds <= rates_ttl THEN "True" ELSE "False"

\* RatesCache.get_pair on the stored string: the subtraction is not
\* guarded
get_pair_iso(updated_at, t, ttl) ==
    LET age == datetime_sub(datetime_now_utc(t), fromisoformat(updated_at))
    IN IF age.raised # "none" THEN age.raised
       ELSE IF age.seconds > ttl THEN "None" ELSE "pair"

\* the clock readings from a reading on, in halves of the TTL
HalfClock(from) ==
    {t \in from..(MaxTime * rates_ttl) : t % (rates_ttl \div 2) = 0}

\* a writer stores a record at some time
WriteRecord(writer) ==
    /\ op.pc \in Terminal
    /\ \E t \in HalfClock(op.now) :
          op' = [NoOp EXCEPT !.kind = writer, !.via = "rates", !.pc = "done",
                             !.now = t, !.utc_offset = op.utc_offset,
                             !.writer = writer, !.written_at = t,
                             !.updated_at = written_updated_at(writer, t, op.utc_offset)]
    /\ UNCHANGED <<scheduler, history, users, portfolios, rates, current_user>>

\* RateManager._is_rate_fresh is asked about the record
ReadByManager ==
    /\ op.pc \in Terminal
    /\ op.writer # "none"
    /\ \E t \in HalfClock(op.now) :
          op' = [op EXCEPT !.kind = "is_rate_fresh", !.pc = "done", !.now = t,
                           !.result = is_rate_fresh_iso(op.updated_at, t, op.utc_offset)]
    /\ UNCHANGED <<scheduler, history, users, portfolios, rates, current_user>>

\* RatesCache.get_pair is asked about the record
ReadByCache ==
    /\ op.pc \in Terminal
    /\ op.writer # "none"
    /\ \E t \in HalfClock(op.now) :
          LET r == get_pair_iso(op.updated_at, t, rates_ttl)
          IN op' = [op EXCEPT !.kind = "get_pair", !.now = t, !.result = r,
                              !.pc = IF r = "TypeError" THEN "failed" ELSE "done"]
    /\ UNCHANGED <<scheduler, history, users, portfolios, rates, current_user>>

\* a process in a time zone at UTC or three hours east of it (the offset
\* in seconds), before any record is written
InitTimestamps ==
    /\ users = <<>>
    /\ portfolios = EmptyFcn
    /\ rates = NoRatesFile
    /\ history = <<>>
    /\ scheduler = RatesScheduler_init
    /\ current_user = 0
    /\ \E utc_offset \in {0, 10800} : op = [NoOp EXCEPT !.utc_offset = utc_offset]

NextTimestamps ==
    \/ \E writer \in {"save_current_rates", "save_calculated_rate", "update_pair"} :
          WriteRecord(writer)
    \/ ReadByManager
    \/ ReadByCache

SpecTimestamps == InitTimestamps /\ [][NextTimestamps]_vars

(* ------------------ RatesCache with a given updated_at ----------------- *)
\* RatesCache._load_file: the document of the file, an empty one when
\* there is no file (last_refresh None, written 0 - 1)
RatesCache_load_file(file) == IF file.exists THEN file ELSE EmptyRatesFile

\* variant: the record is replaced whatever its updated_at
RatesCache_update_pair_unconditional(data, from_code, to_code, rate, source, updated_at, now) ==
    LET key == <<upper(from_code), upper(to_code)>>
        at == IF updated_at = 0 - 1 THEN now ELSE updated_at
        record == [num |-> rate.num, den |-> rate.den,
                   updated_at |-> at, source |-> source]
    IN [saved |-> TRUE,
        data |-> [data EXCEPT
                    !.pairs = [k \in DOMAIN data.pairs \cup {key} |->
                                 IF k = key THEN record ELSE data.pairs[k]],
                    !.last_refresh = now]]

\* RatesCache.update_pair(from_currency, to_currency, rate, source,
\* updated_at) at time now, updated_at None written 0 - 1: self.data after
\* the call and whether _save_file ran
RatesCache_update_pair_at(data, from_code, to_code, rate, source, updated_at, now) ==
    LET key == <<upper(from_code), upper(to_code)>>
        at == IF updated_at = 0 - 1 THEN now ELSE updated_at
        record == [num |-> rate.num, den |-> rate.den,
                   updated_at |-> at, source |-> source]
    IN IF key \notin DOMAIN data.pairs \/ at > data.pairs[key].updated_at
       THEN [saved |-> TRUE,
             data |-> [data EXCEPT
                         !.pairs = [k \in DOMAIN data.pairs \cup {key} |->
                                      IF k = key THEN record ELSE data.pairs[k]],
                         !.last_refresh = now]]
       ELSE [saved |-> FALSE, data |-> data]

\* update_pair is called on the RatesCache object, which lives on in
\* op.rates_cache, with updated_at None or a time before or after the time
\* of the call; _save_file replaces the file with self.data
update_pair(from_code, to_code) ==
    /\ op.pc \in Terminal
    /\ \E now \in Clock, rate \in base_rates(to_code), source \in {"api", "manual"},
          updated_at \in {0 - 1} \cup {t \in 0..(MaxTime * rates_ttl) :
                                             t % rates_ttl = 0} :
          LET r == RatesCache_update_pair_at(op.rates_cache.data, from_code, to_code,
                                             rate, source, updated_at, now)
          IN /\ op' = [NoOp EXCEPT !.kind = "update_pair", !.via = "cache",
                                   !.pc = "done", !.code = from_code, !.to = to_code,
                                   !.now = now, !.rate = rate, !.source = source,
                                   !.written_at = IF updated_at = 0 - 1 THEN now
                                                  ELSE updated_at,
                                   !.seen = op.rates_cache.data,
                                   !.pre_rates = rates,
                                   !.result = IF r.saved THEN "saved" ELSE "kept",
                                   !.rates_cache = [loaded |-> TRUE, data |-> r.data]]
             /\ rates' = IF r.saved THEN r.data ELSE rates
    /\ UNCHANGED <<scheduler, history, users, portfolios, current_user>>

\* RatesCache(file_path) is built anew from the file
RatesCache_init ==
    /\ op.pc \in Terminal
    /\ op' = [NoOp EXCEPT !.kind = "RatesCache", !.via = "cache", !.pc = "done",
                          !.now = op.now,
                          !.rates_cache = [loaded |-> TRUE,
                                           data |-> RatesCache_load_file(rates)]]
    /\ UNCHANGED <<scheduler, history, users, portfolios, rates, current_user>>

\* a RatesCache built where there is no file yet
InitCache ==
    /\ users = <<>>
    /\ portfolios = EmptyFcn
    /\ rates = NoRatesFile
    /\ history = <<>>
    /\ scheduler = RatesScheduler_init
    /\ current_user = 0
    /\ op = [NoOp EXCEPT !.rates_cache =
                 [loaded |-> TRUE, data |-> RatesCache_load_file(NoRatesFile)]]

NextCache ==
    \/ \E p \in CachedPairs : update_pair(p[1], p[2])
    \/ RatesCache_init

SpecCache == InitCache /\ [][NextCache]_vars

(* -------------------- InteractiveCLI: the deposit command -------------- *)
\* InteractiveCLI.do_deposit with "currency amount": the upper-cased code
\* goes to Portfolio.get_wallet / add_currency without a look at the
\* registry, Wallet.deposit raises ValueError for an amount that is not
\* positive (the exception leaves the handler, code 2), save_portfolio
\* writes the portfolio
do_deposit(code, amount) ==
    /\ op.pc \in Terminal
    /\ BalanceOf(portfolios, current_user, code) + amount <= MaxBalance
    /\ IF ~AuthManager_is_logged_in(current_user)
       THEN /\ portfolios' = portfolios
            /\ op' = Command("do_deposit", upper(code), amount, "NotLoggedIn", 1)
       ELSE LET g == get_portfolio(portfolios, current_user)
                w == IF Portfolio_get_wallet(g.wallets, code) THEN g.wallets
                     ELSE Portfolio_add_currency(g.wallets, code).wallets
                d == Wallet_deposit(w[upper(code)], amount)
            IN IF d.raised # "none"
               THEN /\ portfolios' = g.file
                    /\ op' = Command("do_deposit", upper(code), amount, d.raised, 2)
               ELSE /\ portfolios' = save_portfolio_data(g.file, current_user,
                                         [w EXCEPT ![upper(code)] = d.balance])
                    /\ op' = Command("do_deposit", upper(code), amount, "SUCCESS", 0)
    /\ UNCHANGED <<scheduler, history, users, rates, current_user>>

\* the interactive shell: the commands of ValutaTradeCLI and the deposit
\* command of the shell, typed with a registered code in lower case or an
\* unregistered code; buy and sell end at the price step at the latest
NextShell ==
    \/ ValutaTradeCLI_init
    \/ \E n \in Usernames, p \in Passwords : register(n, p)
    \/ \E n \in Usernames, p \in Passwords : login(n, p)
    \/ logout
    \/ \E c \in Codes, a \in Amounts : buy(c, a)
    \/ \E c \in Codes, a \in Amounts : sell(c, a)
    \/ \E c \in {"usd", "XXX"}, a \in Amounts : do_deposit(c, a)
    \/ Validate
    \/ LoadPortfolio
    \/ CheckWallet
    \/ Price

SpecShell == InitCLI /\ [][NextShell]_vars

(* --------------------- the writers of the four files ------------------- *)
\* the usernames AuthManager.register is called with
RegisterNames == {"alice", " alice"}

\* AuthManager.register called as a library: the checks, User.create and
\* the new list of users in memory
AuthManager_register_call(username, password) ==
    /\ op.pc \in Terminal
    /\ Len(users) < MaxUsers
    /\ \E salt \in Salts :
          LET r == AuthManager_register(users, portfolios, username, password, salt)
              o == [NoOp EXCEPT !.kind = "register", !.via = "api",
                                !.username = username, !.pre = portfolios,
                                !.pre_users = users, !.pre_rates = rates,
                                !.pre_history = history, !.now = op.now,
                                !.rates_cache = op.rates_cache]
          IN op' = IF r.raised # "none"
                   THEN [o EXCEPT !.pc = "failed", !.result = r.raised]
                   ELSE [o EXCEPT !.pc = "save_users", !.tmp = r.users,
                                  !.user_id = r.users[Len(r.users)].user_id]
    /\ UNCHANGED <<scheduler, history, users, portfolios, rates, current_user>>

\* _safe_save_users up to the end of json.dump into users.json.tmp
WriteTempUsers ==
    /\ op.pc = "save_users"
    /\ op' = [op EXCEPT !.pc = "replace_users"]
    /\ UNCHANGED <<scheduler, history, users, portfolios, rates, current_user>>

\* os.replace(temp_file, users_file); register goes on to create_portfolio,
\* which saves only when the user has no portfolio yet
ReplaceUsers ==
    /\ op.pc = "replace_users"
    /\ users' = op.tmp
    /\ op' = IF op.user_id \in DOMAIN portfolios
             THEN [op EXCEPT !.pc = "done", !.result = "SUCCESS", !.tmp = EmptyFcn]
             ELSE [op EXCEPT !.pc = "save", !.tmp = EmptyFcn]
    /\ UNCHANGED <<scheduler, history, portfolios, rates, current_user>>

\* the file a save in progress is about
SaveTarget(pc) ==
    CASE pc \in {"save", "replace"} -> "portfolios"
      [] pc \in {"save_users", "replace_users"} -> "users"
      [] pc \in {"save_rates", "replace_rates"} -> "rates"
      [] OTHER -> "history"

\* variant: the error of the save is logged and the call returns normally
save_failed_swallowed(o) ==
    [o EXCEPT !.pc = "done", !.result = "SUCCESS", !.tmp = EmptyFcn,
              !.failed_save = SaveTarget(o.pc)]

\* the save raises while the temp file is written or renamed:
\* _safe_save_users and _safe_save_portfolios raise ApiRequestError,
\* RatesStorage._atomic_write removes the temp file and re-raises
save_failed(o) ==
    [o EXCEPT !.pc = "failed",
              !.result = IF o.via = "parser" THEN "OSError" ELSE "ApiRequestError",
              !.tmp = EmptyFcn, !.failed_save = SaveTarget(o.pc)]

\* the disk is full or the file may not be written
SaveFails ==
    /\ op.pc \in {"save", "replace", "save_users", "replace_users",
                  "save_rates", "replace_rates", "save_history", "replace_history"}
    /\ op' = save_failed(op)
    /\ UNCHANGED <<scheduler, history, users, portfolios, rates, current_user>>

\* an empty data directory in which RateManager() created the rate store
InitStores ==
    /\ users = <<>>
    /\ portfolios = EmptyFcn
    /\ rates = update_all_rates
    /\ history = <<>>
    /\ scheduler = RatesScheduler_init
    /\ current_user = 0
    /\ op = NoOp

\* registrations, deposits of registered users and refreshes, each of whose
\* saves may fail
NextStores ==
    \/ \E n \in RegisterNames : AuthManager_register_call(n, "pw12")
    \/ WriteTempUsers
    \/ ReplaceUsers
    \/ \E u \in DOMAIN portfolios, a \in 1..MaxAmount : deposit_currency(u, "USD", a)
    \/ Validate
    \/ LoadPortfolio
    \/ CheckWallet
    \/ UpdateWallets
    \/ WriteTemp
    \/ Replace
    \/ update_rates(0, MAX_HISTORY_ENTRIES)
    \/ Request
    \/ Sleep
    \/ Merge
    \/ WriteTempRates
    \/ ReplaceRates
    \/ WriteTempHistory
    \/ ReplaceHistory
    \/ SaveFails

SpecStores == InitStores /\ [][NextStores]_vars

(* ======================================================================= *)
(*                              properties                                 *)
(* ======================================================================= *)
WalletsOf(file, user_id) ==
    IF user_id \in DOMAIN file THEN file[user_id] ELSE EmptyFcn

Bal(wallets, code) == IF code \in DOMAIN wallets THEN wallets[code] ELSE 0

Registered(code) == upper(code) \in CURRENCY_REGISTRY

\* a rate for the pair is in the store: the pair is the same currency, or its
\* direct or its inverse record exists
HasRate(file, from_code, to_code) ==
    /\ file.exists
    /\ \/ from_code = to_code
       \/ <<from_code, to_code>> \in DOMAIN file.pairs
       \/ <<to_code, from_code>> \in DOMAIN file.pairs

\* that rate: the direct record, else one over the inverse record
RateOf(file, from_code, to_code) ==
    IF from_code = to_code THEN [num |-> 1, den |-> 1]
    ELSE IF <<from_code, to_code>> \in DOMAIN file.pairs
    THEN file.pairs[<<from_code, to_code>>]
    ELSE [num |-> file.pairs[<<to_code, from_code>>].den,
          den |-> file.pairs[<<to_code, from_code>>].num]

Returned == op.pc \in {"done", "failed"}
PreWallets == WalletsOf(op.pre, op.user_id)
NowWallets == WalletsOf(portfolios, op.user_id)
TradedCode == upper(op.code)
Passed(stage) == \E i \in 1..Len(op.stages) : op.stages[i] = stage

\* C1: a buy of a registered currency C with amount > 0, an available rate r
\* for (C, USD) and a USD balance of at least amount*r succeeds, takes
\* amount*r from the USD wallet and adds amount to the C wallet.
C1_BuySucceeds ==
    ( /\ op.kind = "buy" /\ Returned
      /\ op.amount > 0 /\ Registered(op.code) /\ TradedCode # "USD"
      /\ "USD" \in DOMAIN PreWallets
      /\ HasRate(rates, TradedCode, "USD")
      /\ PreWallets["USD"] * RateOf(rates, TradedCode, "USD").den
            >= op.amount * RateOf(rates, TradedCode, "USD").num )
    => /\ op.result = "SUCCESS"
       /\ (PreWallets["USD"] - Bal(NowWallets, "USD"))
             * RateOf(rates, TradedCode, "USD").den
            = op.amount * RateOf(rates, TradedCode, "USD").num
       /\ Bal(NowWallets, TradedCode) = Bal(PreWallets, TradedCode) + op.amount

\* C2: a sell of a registered currency C with amount > 0, an available rate r
\* for (C, USD) and a C balance of at least amount succeeds, takes amount
\* from the C wallet and adds amount*r to the USD wallet.
C2_SellSucceeds ==
    ( /\ op.kind = "sell" /\ Returned
      /\ op.amount > 0 /\ Registered(op.code) /\ TradedCode # "USD"
      /\ TradedCode \in DOMAIN PreWallets
      /\ PreWallets[TradedCode] >= op.amount
      /\ HasRate(rates, TradedCode, "USD") )
    => /\ op.result = "SUCCESS"
       /\ Bal(NowWallets, TradedCode) = PreWallets[TradedCode] - op.amount
       /\ (Bal(NowWallets, "USD") - Bal(PreWallets, "USD"))
             * RateOf(rates, TradedCode, "USD").den
            = op.amount * RateOf(rates, TradedCode, "USD").num

\* the stored portfolio holds the whole trade: the debit, the credit and
\* nothing else
CompleteTrade(before, after) ==
    IF op.kind = "buy"
    THEN /\ DOMAIN after = DOMAIN before \cup {TradedCode}
         /\ Bal(after, TradedCode) = Bal(before, TradedCode) + op.amount
         /\ Bal(after, "USD") < Bal(before, "USD")
         /\ \A c \in DOMAIN before \ {TradedCode, "USD"} : after[c] = before[c]
    ELSE /\ DOMAIN after = DOMAIN before \cup {"USD"}
         /\ Bal(after, TradedCode) = Bal(before, TradedCode) - op.amount
         /\ Bal(after, "USD") > Bal(before, "USD")
         /\ \A c \in DOMAIN before \ {TradedCode, "USD"} : after[c] = before[c]

\* C3: at every point of a buy or a sell, a failure or a crash included, the
\* stored portfolio of the user is the one before the trade or the one with
\* both the debit and the credit applied.
C3_NoPartialTrade ==
    op.kind \in {"buy", "sell"}
    => \/ NowWallets = PreWallets
       \/ CompleteTrade(PreWallets, NowWallets)

\* a sell that had the funds and then died at the rate lookup
C3_Witness ==
    /\ op.kind = "sell" /\ op.pc = "crashed"
    /\ op.amount > 0
    /\ TradedCode \in DOMAIN PreWallets
    /\ PreWallets[TradedCode] >= op.amount
    /\ NowWallets = PreWallets

\* C4: when the wallet to debit holds less than the trade needs (buy: USD
\* balance < amount*rate, sell: C balance < amount) the call fails with
\* InsufficientFunds and the stored portfolios are unchanged.
C4_InsufficientFunds ==
    /\ ( /\ op.kind = "buy" /\ Returned
         /\ op.amount > 0 /\ Registered(op.code)
         /\ "USD" \in DOMAIN PreWallets
         /\ HasRate(rates, TradedCode, "USD")
         /\ PreWallets["USD"] * RateOf(rates, TradedCode, "USD").den
               < op.amount * RateOf(rates, TradedCode, "USD").num )
       => (op.result = "InsufficientFundsError" /\ portfolios = op.pre)
    /\ ( /\ op.kind = "sell" /\ Returned
         /\ op.amount > 0 /\ Registered(op.code)
         /\ TradedCode \in DOMAIN PreWallets
         /\ PreWallets[TradedCode] < op.amount )
       => (op.result = "InsufficientFundsError" /\ portfolios = op.pre)

\* C5: a sell of a currency the user has no wallet for never succeeds and
\* leaves the user's stored wallets and balances as they were, at every
\* point of the call; with a valid amount and a registered code the error
\* is WalletNotFound or InsufficientFunds.
C5_SellWithoutWallet ==
    (op.kind = "sell" /\ TradedCode \notin DOMAIN PreWallets)
    => /\ NowWallets = PreWallets
       /\ op.pc # "done"
       /\ (op.pc = "failed" /\ op.amount > 0 /\ Registered(op.code))
          => op.result \in {"WalletNotFoundError", "InsufficientFundsError"}

\* a sell of EUR refused for a user who holds USD only
C5_Witness ==
    /\ op.kind = "sell" /\ op.pc = "failed"
    /\ TradedCode = "EUR" /\ op.amount > 0
    /\ DOMAIN PreWallets = {"USD"}
    /\ op.result = "WalletNotFoundError"
    /\ NowWallets = PreWallets

\* C6: buy and sell fail with RateUnavailable only when the store holds no
\* rate for (C, USD), and then the stored portfolios are unchanged.
C6_RateUnavailableOnlyWithoutRate ==
    (op.kind \in {"buy", "sell"} /\ op.result = "RateUnavailableError")
    => /\ ~HasRate(rates, TradedCode, "USD")
       /\ portfolios = op.pre

\* C7: with amount <= 0, buy_currency, sell_currency and deposit_currency
\* stop at the amount check, whatever the code and the user: the error is
\* InvalidAmount, and portfolios and rate store are as before the call.
C7_InvalidAmountFirst ==
    (op.kind \in {"buy", "sell", "deposit"} /\ op.via = "api" /\ op.amount <= 0)
    => /\ op.pc \in {"validate", "failed", "crashed"}
       /\ op.pc = "failed" => op.result = "InvalidAmountError"
       /\ portfolios = op.pre
       /\ rates = op.pre_rates

\* an unregistered code and a missing rate store do not get in the way
C7_Witness ==
    /\ op.kind = "buy" /\ op.via = "api" /\ op.pc = "failed"
    /\ op.amount <= 0 /\ ~Registered(op.code)
    /\ ~rates.exists
    /\ op.result = "InvalidAmountError"

\* C8: with amount > 0 and a code that is not registered in either case,
\* buy_currency, sell_currency and deposit_currency fail with
\* CurrencyNotFound, the stored portfolios are unchanged and no portfolio
\* holds a wallet of that code.
C8_UnknownCurrency ==
    (op.kind \in {"buy", "sell", "deposit"} /\ op.amount > 0 /\ ~Registered(op.code))
    => /\ op.pc \in {"validate", "failed", "crashed"}
       /\ op.pc = "failed" => op.result = "CurrencyNotFoundError"
       /\ portfolios = op.pre
       /\ \A u \in DOMAIN portfolios : TradedCode \notin DOMAIN portfolios[u]

\* a deposit of XXX refused for a user who has wallets
C8_Witness ==
    /\ op.kind = "deposit" /\ op.pc = "failed"
    /\ op.amount > 0 /\ op.code = "XXX"
    /\ PreWallets # EmptyFcn
    /\ op.result = "CurrencyNotFoundError"

\* C9: with no user logged in, the commands buy, sell and show-portfolio
\* return 1 with the not-logged-in error and leave the stored portfolios
\* unchanged; nobody is logged in at the start and after logout.
C9_NotLoggedInRejected ==
    /\ (op.via = "cli" /\ op.kind \in {"buy", "sell", "show"} /\ op.session = 0)
       => /\ op.pc = "failed"
          /\ op.rc = 1
          /\ op.result = "NotLoggedIn"
          /\ portfolios = op.pre
    /\ op.kind \in {"none", "logout"} => current_user = 0

\* a sell refused after a user had logged in, deposited and left
C9_Witness ==
    /\ op.via = "cli" /\ op.kind = "sell" /\ op.session = 0
    /\ op.amount > 0 /\ op.rc = 1
    /\ \E u \in DOMAIN portfolios : TradedCode \in DOMAIN portfolios[u]

StageOrder == <<"VALIDATE", "PRICE", "DEBIT", "CREDIT", "PERSIST", "DONE">>

StagesInOrder ==
    /\ Len(op.stages) <= Len(StageOrder)
    /\ \A i \in 1..Len(op.stages) : op.stages[i] = StageOrder[i]

\* C10 as stated: buy and sell pass VALIDATE, PRICE, DEBIT, CREDIT, PERSIST,
\* DONE in this order, the funds check belongs to DEBIT and so comes after
\* the rate was obtained, and a failed call has no later effect.
C10_FundsCheckAfterPrice ==
    op.kind \in {"buy", "sell"}
    => /\ StagesInOrder
       /\ op.result = "InsufficientFundsError" => Passed("PRICE")
       /\ op.pc = "failed" => NowWallets = PreWallets

\* C10 amended: buy and sell pass the stages VALIDATE, PRICE, DEBIT, CREDIT,
\* PERSIST, DONE in this order and stop at the first failing check with no
\* later effect; the wallet checks come before the rate is obtained, and in
\* sell so does the funds check: a sell of more than the wallet holds fails
\* with InsufficientFunds before PRICE, whatever the rate store holds.
C10_StagesAmended ==
    op.kind \in {"buy", "sell"}
    => /\ StagesInOrder
       /\ op.pc = "failed" => NowWallets = PreWallets
       /\ op.result \in {"InvalidAmountError", "CurrencyNotFoundError"}
          => op.stages = <<>>
       /\ op.result \in {"WalletNotFoundError", "RateUnavailableError"}
          => op.stages = <<"VALIDATE">>
       /\ (op.kind = "sell" /\ op.result = "InsufficientFundsError")
          => op.stages = <<"VALIDATE">>
       /\ ( /\ op.kind = "sell" /\ op.pc = "failed"
            /\ op.amount > 0 /\ Registered(op.code)
            /\ TradedCode \in DOMAIN PreWallets
            /\ PreWallets[TradedCode] < op.amount )
          => op.result = "InsufficientFundsError"

\* a sell of more than the wallet holds, refused before any rate lookup
C10_Witness ==
    /\ op.kind = "sell" /\ op.pc = "failed"
    /\ op.result = "InsufficientFundsError"
    /\ op.stages = <<"VALIDATE">>
    /\ ~rates.exists

NonNegative(wallets) == \A c \in DOMAIN wallets : wallets[c] >= 0

\* the wallet a direct call worked on: its balance before and after
CallBefore == op.pre_wallets[TradedCode]
CallAfter == op.wallets[TradedCode]

\* C11: after any sequence of register, deposit, buy, sell, Wallet.deposit
\* and Wallet.withdraw, successful or failed, and after loading a portfolio
\* from the store, every wallet balance is >= 0: in the store, in the file
\* being written and in the Portfolio object in memory.
C11_BalancesNonNegative ==
    /\ \A u \in DOMAIN portfolios : NonNegative(portfolios[u])
    /\ \A u \in DOMAIN op.tmp : NonNegative(op.tmp[u])
    /\ NonNegative(op.wallets)
    /\ NonNegative(op.pre_wallets)

\* a withdrawal of the whole balance of a loaded wallet
C11_Witness ==
    /\ op.kind = "Wallet.withdraw" /\ op.pc = "done"
    /\ op.amount > 0
    /\ CallBefore = op.amount
    /\ CallAfter = 0

\* C12 as stated: Wallet.withdraw(amount) with amount > balance fails with
\* InsufficientFunds and leaves the balance unchanged; with
\* 0 < amount <= balance it succeeds and the balance is balance - amount.
C12_WithdrawInsufficientFunds ==
    op.kind = "Wallet.withdraw"
    => /\ op.amount > CallBefore
          => (op.result = "InsufficientFundsError" /\ op.wallets = op.pre_wallets)
       /\ (0 < op.amount /\ op.amount <= CallBefore)
          => (op.result = "SUCCESS" /\ CallAfter = CallBefore - op.amount)

\* C12 amended: Wallet.withdraw(amount) with amount > balance fails with
\* ValueError and leaves the balance unchanged; with 0 < amount <= balance
\* it succeeds and the balance is balance - amount, no other wallet changing.
C12_WithdrawValueError ==
    op.kind = "Wallet.withdraw"
    => /\ op.amount > CallBefore
          => (op.result = "ValueError" /\ op.wallets = op.pre_wallets)
       /\ (0 < op.amount /\ op.amount <= CallBefore)
          => /\ op.result = "SUCCESS"
             /\ op.wallets = [op.pre_wallets EXCEPT
                                 ![TradedCode] = CallBefore - op.amount]

\* more than the wallet holds is asked from a wallet that holds something
C12_Witness ==
    /\ op.kind = "Wallet.withdraw" /\ op.pc = "failed"
    /\ CallBefore > 0
    /\ op.amount > CallBefore
    /\ op.result = "ValueError"

\* C13 as stated: Wallet.deposit(amount) with amount <= 0 fails with
\* InvalidAmount and leaves the balance unchanged; with amount > 0 the
\* balance becomes balance + amount.
C13_DepositInvalidAmount ==
    op.kind = "Wallet.deposit"
    => /\ op.amount <= 0
          => (op.result = "InvalidAmountError" /\ op.wallets = op.pre_wallets)
       /\ op.amount > 0
          => (op.result = "SUCCESS" /\ CallAfter = CallBefore + op.amount)

\* C13 amended: Wallet.deposit(amount) with amount <= 0 fails with
\* ValueError and leaves the balance unchanged; with amount > 0 the balance
\* becomes balance + amount, no other wallet changing.
C13_DepositValueError ==
    op.kind = "Wallet.deposit"
    => /\ op.amount <= 0
          => (op.result = "ValueError" /\ op.wallets = op.pre_wallets)
       /\ op.amount > 0
          => /\ op.result = "SUCCESS"
             /\ op.wallets = [op.pre_wallets EXCEPT
                                 ![TradedCode] = CallBefore + op.amount]

\* a deposit of a negative amount into a wallet that holds something
C13_Witness ==
    /\ op.kind = "Wallet.deposit" /\ op.pc = "failed"
    /\ op.amount < 0
    /\ CallBefore > 0
    /\ op.result = "ValueError"

\* no two wallets of a portfolio have codes that differ in case only
OneWalletPerCode(wallets) ==
    \A c1 \in DOMAIN wallets, c2 \in DOMAIN wallets :
        upper(c1) = upper(c2) => c1 = c2

\* C14 as stated: a portfolio holds at most one wallet per code, compared
\* case-insensitively, and Portfolio.add_currency(code) for a code whose
\* wallet exists fails with WalletAlreadyExists and leaves the wallets and
\* their balances unchanged.
C14_AddCurrencyWalletAlreadyExists ==
    /\ \A u \in DOMAIN portfolios : OneWalletPerCode(portfolios[u])
    /\ OneWalletPerCode(op.wallets)
    /\ (op.kind = "add_currency" /\ TradedCode \in DOMAIN op.pre_wallets)
       => (op.result = "WalletAlreadyExists" /\ op.wallets = op.pre_wallets)

\* C14 amended: the same, the error of add_currency being ValueError; for a
\* code without a wallet add_currency adds one wallet, with balance 0.
C14_AddCurrencyValueError ==
    /\ \A u \in DOMAIN portfolios : OneWalletPerCode(portfolios[u])
    /\ OneWalletPerCode(op.wallets)
    /\ (op.kind = "add_currency" /\ TradedCode \in DOMAIN op.pre_wallets)
       => (op.result = "ValueError" /\ op.wallets = op.pre_wallets)
    /\ (op.kind = "add_currency" /\ TradedCode \notin DOMAIN op.pre_wallets)
       => /\ op.result = "SUCCESS"
          /\ op.wallets = op.pre_wallets @@ (TradedCode :> 0)

\* add_currency("eur") on a portfolio whose EUR wallet holds something
C14_Witness ==
    /\ op.kind = "add_currency" /\ op.pc = "failed"
    /\ op.code = "eur"
    /\ "EUR" \in DOMAIN op.pre_wallets
    /\ op.pre_wallets["EUR"] > 0
    /\ op.wallets = op.pre_wallets

\* C16: a rate request for (X, X) gives 1.0 at once, without reading or
\* writing the rate store: in the get-rate command, in get_rate_with_info
\* as buy and sell call it (a trade of USD, priced in USD, is not refused
\* for want of a rate), and in the valuation of a portfolio that holds the
\* base currency only.
C16_SameCurrencyRateIsOne ==
    /\ (op.kind = "get_rate" /\ op.code = op.to)
       => /\ op.rc = 0
          /\ op.rate = [num |-> 1, den |-> 1]
          /\ rates = op.pre_rates
    /\ (op.kind \in {"buy", "sell"} /\ TradedCode = "USD" /\ Returned)
       => /\ op.result # "RateUnavailableError"
          /\ rates = op.pre_rates
    /\ ( /\ op.kind = "show" /\ op.session # 0
         /\ DOMAIN WalletsOf(portfolios, op.session) = {op.code} )
       => /\ op.rc = 0
          /\ rates = op.pre_rates

\* two rates are the same number
SameRate(r1, r2) == r1.num * r2.den = r2.num * r1.den

Inverse(r) == [num |-> r.den, den |-> r.num]

Bridge(usd_from, usd_to) ==
    [num |-> usd_from.den * usd_to.num, den |-> usd_from.num * usd_to.den]

\* the pair has a record in the store that is fresh at the time of the call
FreshAt(file, from_code, to_code, now) ==
    /\ <<from_code, to_code>> \in DOMAIN file.pairs
    /\ now - file.pairs[<<from_code, to_code>>].updated_at <= rates_ttl

\* C17: a lookup for (from, to), from # to, as buy, sell and get-rate make
\* it, answers with the direct record if it is present and fresh, else with
\* 1/rate of the fresh inverse record, else with the USD bridge
\* (1/rate(USD_from)) * rate(USD_to) of two fresh USD records; in none of
\* these cases it fails.
C17_LookupOrder ==
    (op.kind = "get_rate_with_info" /\ op.code # op.to)
    => IF FreshAt(rates, op.code, op.to, op.now)
       THEN /\ op.result = "SUCCESS"
            /\ SameRate(op.rate, rates.pairs[<<op.code, op.to>>])
       ELSE IF FreshAt(rates, op.to, op.code, op.now)
       THEN /\ op.result = "SUCCESS"
            /\ SameRate(op.rate, Inverse(rates.pairs[<<op.to, op.code>>]))
       ELSE ( /\ FreshAt(rates, "USD", op.code, op.now)
              /\ FreshAt(rates, "USD", op.to, op.now) )
            => /\ op.result = "SUCCESS"
               /\ SameRate(op.rate, Bridge(rates.pairs[<<"USD", op.code>>],
                                           rates.pairs[<<"USD", op.to>>]))

\* the USD records a lookup of the pair reads in _update_and_get_rate
InputsOf(file, from_code, to_code) ==
    {<<"USD", from_code>>, <<"USD", to_code>>} \cap DOMAIN file.pairs

\* the step is a call of _update_and_get_rate answered from stored records
ServedFromStore ==
    op'.kind = "_update_and_get_rate" /\ op'.stages = <<"STORE">>

\* the age, at the time of the call, of the record the call was about
AgeInStore == op.now - rates.pairs[<<op.code, op.to>>].updated_at
AgeInCache == op.now - op.cache[<<op.code, op.to>>].updated_at

C19_LookupIdempotent ==
    [][ ( /\ op.kind = "_update_and_get_rate" /\ op.stages = <<"STORE">>
          /\ ServedFromStore
          /\ op'.code = op.code /\ op'.to = op.to
          /\ op'.now - op.now <= rates_ttl )
        => /\ SameRate(op'.rate, op.rate)
           /\ DOMAIN rates'.pairs = DOMAIN rates.pairs
           /\ \A k \in DOMAIN rates.pairs :
                 rates'.pairs[k].updated_at = rates.pairs[k].updated_at ]_vars

\* C20: deriving a rate (inverse or USD bridge) and storing it leaves the
\* updated_at of the records it was derived from as they were, and a
\* derived rate is given only while those records are fresh.
C20_DerivedDoesNotExtendInputs ==
    [][ /\ ( \/ ServedFromStore /\ op'.code # "USD"
             \/ op'.kind = "_save_calculated_rate" )
           => \A k \in InputsOf(rates, op'.code, op'.to) :
                 rates'.pairs[k].updated_at = rates.pairs[k].updated_at
        /\ (ServedFromStore /\ op'.code # "USD")
           => \A k \in InputsOf(rates, op'.code, op'.to) :
                 op'.now - rates.pairs[k].updated_at <= rates_ttl ]_vars

\* the pair records a step wrote into the rate store
Written == {k \in DOMAIN rates'.pairs :
               k \notin DOMAIN rates.pairs \/ rates'.pairs[k] # rates.pairs[k]}

\* C21: every write of a pair record into the rate store (by
\* _save_calculated_rate or _update_and_get_rate of the RateManager) sets
\* the updated_at of the pair and the last_refresh of the store to the
\* time of the write.
C21_WriteSetsBothTimestamps ==
    [][ \A k \in Written :
           /\ rates'.pairs[k].updated_at = op'.now
           /\ rates'.last_refresh = op'.now ]_vars

\* the ways a source fails in a refresh: its request failed after all
\* retries, or its response was malformed (unusable, or of a shape the
\* parsing raises on)
FailedSource == {"failed", "no_data", "raised"}

RefreshEnded == op.kind = "update_rates" /\ op.pc \in {"done", "failed"}

\* the pairs of a batch are in the rate store
Stored(batch) == \A i \in 1..Len(batch) : batch[i].pair \in DOMAIN rates.pairs

\* C22: in a refresh with two sources, when one source failed and the
\* other returned a non-empty batch, the refresh does not abort and every
\* pair of that batch is in the rate store afterwards.
C22_PartialSourceTolerance ==
    /\ (RefreshEnded /\ op.fiat \in FailedSource /\ op.crypto = "batch")
       => op.pc = "done" /\ Stored(well_formed_rates("coingecko"))
    /\ (RefreshEnded /\ op.fiat = "batch" /\ op.crypto \in FailedSource)
       => op.pc = "done" /\ Stored(well_formed_rates("exchangerate"))

\* C23: after a refresh every pair record the refresh wrote has as its
\* source the name of the source adapter that produced the pair.
C23_PerPairProvenance ==
    (op.kind = "update_rates" /\ op.pc = "done")
    => \A i \in 1..Len(op.all_rates) :
          rates.pairs[op.all_rates[i].pair].source = op.all_rates[i].source

\* C24: a refresh fails with the all-sources error (RuntimeError) only if
\* every source failed; when a source delivered a batch it does not fail
\* with that error; when it fails with it, the rate store and the history
\* file are as they were before the refresh.
C24_AllSourcesUnavailable ==
    /\ (op.kind = "update_rates" /\ op.result = "RuntimeError")
       => /\ op.fiat \in FailedSource /\ op.crypto \in FailedSource
          /\ rates = op.pre_rates
          /\ history = op.pre_history
    /\ (RefreshEnded /\ "batch" \in {op.fiat, op.crypto})
       => op.result # "RuntimeError"

\* both requests failed after all retries and the refresh raised
C24_Witness ==
    /\ op.kind = "update_rates"
    /\ op.result = "RuntimeError"
    /\ op.fiat = "failed" /\ op.crypto = "failed"

\* the last n entries of a sequence, all of it when it is shorter
Last(seq, n) ==
    IF Len(seq) > n THEN SubSeq(seq, Len(seq) - n + 1, Len(seq)) ELSE seq

\* C25: after save_to_history the history file holds at most
\* ParserConfig.MAX_HISTORY_ENTRIES entries: the old entries followed by
\* the new ones in insertion order, without the oldest when the cap is
\* exceeded.
C25_HistoryCapped ==
    (op.kind = "update_rates" /\ op.pc = "done")
    => /\ Len(history) <= op.max_history
       /\ history = Last(op.pre_history
                           \o [i \in 1..Len(op.all_rates) |->
                                 [pair |-> op.all_rates[i].pair,
                                  num |-> op.all_rates[i].num,
                                  den |-> op.all_rates[i].den,
                                  timestamp |-> op.now, source |-> "api"]],
                         op.max_history)

\* the _make_request of a client is in progress
InMakeRequest(c) == op.pc \in {"request", "sleep"} /\ op.source = c

\* what the _make_request of a client came back with, "none" before
Got(c) == IF c = "exchangerate" THEN op.fiat ELSE op.crypto

\* C26: _make_request always terminates; it performs at most
\* RETRY_ATTEMPTS requests, sleeps between failed attempts only, returns at
\* the first response, and returns None right after the last failed
\* attempt.
C26_MakeRequestTerminates ==
    /\ [](\A c \in Clients :
            /\ op.requests[c] <= RETRY_ATTEMPTS
            /\ (op.pc = "sleep" /\ op.source = c)
               => op.sleeps[c] = op.requests[c] - 1 /\ op.requests[c] < RETRY_ATTEMPTS
            /\ (op.pc = "request" /\ op.source = c)
               => op.sleeps[c] = op.requests[c]
            /\ Got(c) # "none"
               => op.sleeps[c] = op.requests[c] - 1
            /\ Got(c) = "failed" => op.requests[c] = RETRY_ATTEMPTS)
    /\ \A c \in Clients : InMakeRequest(c) ~> ~InMakeRequest(c)

\* a _make_request returned None after RETRY_ATTEMPTS failed requests
C26_Witness ==
    /\ op.fiat = "failed"
    /\ op.requests["exchangerate"] = RETRY_ATTEMPTS
    /\ op.sleeps["exchangerate"] = RETRY_ATTEMPTS - 1

\* C29: the file is the source of truth for a long-lived RateManager: a
\* read gives the content of the file as it is, and a save of a derived
\* rate leaves every other record of the file as it is.
C29_StoreIsSourceOfTruth ==
    [][ /\ op'.kind = "_safe_load_rates" => op'.seen = rates
        /\ op'.kind = "_save_calculated_rate"
           => \A k \in DOMAIN rates.pairs \ {<<op'.code, op'.to>>} :
                 k \in DOMAIN rates'.pairs /\ rates'.pairs[k] = rates.pairs[k]
      ]_vars

\* C27: every write to the user, portfolio and rate files (and to the
\* history file) is an atomic replace: the content at the path of a file
\* changes only in the step that renames a completely written temp file
\* over it, so at every point between the steps of a writer a reader finds
\* the complete previous document or the complete new one.
C27_AtomicReplace ==
    [][ /\ users' # users => op.pc = "replace_users" /\ users' = op.tmp
        /\ portfolios' # portfolios => op.pc = "replace" /\ portfolios' = op.tmp
        /\ rates' # rates => op.pc = "replace_rates" /\ rates' = op.tmp
        /\ history' # history => op.pc = "replace_history" /\ history' = op.tmp
      ]_vars

\* the new rate store is written to its temp file and not renamed yet: the
\* file at the path still holds the previous document
C27_Witness ==
    /\ op.kind = "update_rates"
    /\ op.pc = "replace_rates"
    /\ op.tmp # rates
    /\ rates = op.pre_rates

C30_UsernamesUnique ==
    /\ \A i, j \in 1..Len(users) :
          i # j => users[i].username # users[j].username
    /\ (/\ op.kind = "register" /\ op.pc \in {"done", "failed"}
        /\ \E i \in 1..Len(op.pre_users) :
              op.pre_users[i].username = strip(op.username))
       => /\ op.result = "UsernameTakenError"
          /\ users = op.pre_users
          /\ portfolios = op.pre

(* ------------------------------- C31 ----------------------------------- *)
StoredIds(us) == {us[i].user_id : i \in 1..Len(us)}

\* C31: the stored user ids are pairwise distinct at every moment, and a
\* register that succeeded appended one user to the stored list, left the
\* users stored before as they were, and gave the new user the id 1 when
\* the store was empty and the largest stored id plus 1 otherwise.
C31_UserIdsUnique ==
    /\ \A i, j \in 1..Len(users) : i # j => users[i].user_id # users[j].user_id
    /\ (op.kind = "register" /\ op.pc = "done") =>
          /\ Len(users) = Len(op.pre_users) + 1
          /\ \A i \in 1..Len(op.pre_users) : users[i] = op.pre_users[i]
          /\ users[Len(users)].user_id \notin StoredIds(op.pre_users)
          /\ users[Len(users)].user_id =
                IF op.pre_users = <<>> THEN 1
                ELSE 1 + CHOOSE m \in StoredIds(op.pre_users) :
                            \A k \in StoredIds(op.pre_users) : k <= m

\* a second registration succeeded and received the id 2
C31_Witness ==
    /\ op.kind = "register" /\ op.pc = "done"
    /\ Len(op.pre_users) = 1
    /\ users[Len(users)].user_id = 2

(* ------------------------------- C32 ----------------------------------- *)
\* C32: a command handler of the CLI that has finished returned 0 when the
\* command succeeded and 1 when it met an error; no exception left the
\* handler (which the model records as the code 2).
C32_ErrorsCaughtAtHandler ==
    (op.via = "cli" /\ op.pc \in {"done", "failed"}) =>
        /\ op.rc \in {0, 1}
        /\ (op.rc = 0) <=> (op.result = "SUCCESS")

(* ------------------------------- C33 ----------------------------------- *)
\* C33: after a successful refresh, for every pair a source returned with
\* the numeric rate v, the rate field of the pair's record in the rate
\* store is the number v.
C33_StoredRateIsNumber ==
    (op.kind = "update_rates" /\ op.pc = "done")
    => \A i \in 1..Len(op.all_rates) :
          record_rate(rates.pairs[op.all_rates[i].pair])
              = [is_number |-> TRUE, num |-> op.all_rates[i].num,
                 den |-> op.all_rates[i].den, source |-> "none"]

(* ------------------------------- C34 ----------------------------------- *)
RunningLoops == {t \in 1..Len(scheduler.threads) : scheduler.threads[t] # "ended"}

\* C34: whenever a call of start or stop has returned, at most one loop
\* thread is running and at most one periodic job is registered.
C34_AtMostOneLoop ==
    (op.kind \in {"start", "stop"} /\ op.pc = "done")
    => /\ Cardinality(RunningLoops) <= 1
       /\ scheduler.jobs <= 1

(* ------------------------------- C35 ----------------------------------- *)
\* C35: every execution of scheduled_update, the one in start and the ones
\* of the loop, invoked the updater's update_rates.
C35_ScheduledUpdateInvokesUpdater ==
    scheduler.last_update.by # "none" => scheduler.last_update.invoked

(* ------------------------------- C36 ----------------------------------- *)
\* the persisted entry of a user: the wallets, or "absent"
EntryOf(file, user_id) ==
    IF user_id \in DOMAIN file THEN [present |-> TRUE, wallets |-> file[user_id]]
    ELSE [present |-> FALSE, wallets |-> EmptyFcn]

\* C36: from the first statement of buy_currency, sell_currency or
\* deposit_currency for user A to its end, with the create_portfolio and
\* save_portfolio calls it makes, the persisted portfolio entry of every
\* other user B is what it was when the call began, whether the call
\* succeeds, fails or is cut short.
C36_OtherUsersUntouched ==
    op.kind \in {"buy", "sell", "deposit"}
    => \A b \in (DOMAIN portfolios \cup DOMAIN op.pre \cup UserIds) \ {op.user_id} :
          EntryOf(portfolios, b) = EntryOf(op.pre, b)

\* a deposit for one user was saved while another user holds a balance
C36_Witness ==
    /\ op.kind = "deposit" /\ op.pc = "done"
    /\ EntryOf(portfolios, op.user_id) # EntryOf(op.pre, op.user_id)
    /\ \E b \in DOMAIN portfolios \ {op.user_id} :
          \E c \in DOMAIN portfolios[b] : portfolios[b][c] > 0

(* ------------------------------- C37 ----------------------------------- *)
\* C37: after a login that failed, AuthManager.current_user is what it was
\* before the call; after a login that succeeded it is a stored user with
\* the username given whose stored hash is the hash of the password given;
\* a login changes current_user only when it succeeds.
C37_FailedLoginKeepsSession ==
    op.kind = "login" =>
        /\ op.pc = "failed" => current_user = op.session
        /\ op.pc = "done" =>
              \E i \in 1..Len(users) :
                  /\ users[i].username = op.username
                  /\ users[i].hashed_password = hash(op.password, users[i].salt)
                  /\ users[i].user_id = current_user
        /\ current_user # op.session => op.pc = "done"

\* a user was logged in, a login with a wrong password or an unknown name
\* failed, and the user is still logged in
C37_Witness ==
    /\ op.kind = "login" /\ op.pc = "failed"
    /\ op.session # 0
    /\ current_user = op.session

(* ------------------------------- C38 ----------------------------------- *)
\* the latest record was written by the writer and is at most TTL old
WrittenWithinTTL(writer) ==
    /\ op.writer = writer
    /\ 0 <= op.now - op.written_at
    /\ op.now - op.written_at <= rates_ttl

\* C38: a record written by RatesStorage.save_current_rates at most TTL
\* ago is judged fresh by RateManager._is_rate_fresh, and a record written
\* by RateManager at most TTL ago is returned by RatesCache.get_pair,
\* without an error.
C38_WritersAndReadersAgree ==
    /\ (op.kind = "is_rate_fresh" /\ WrittenWithinTTL("save_current_rates"))
       => op.result = "True"
    /\ (op.kind = "get_pair" /\ WrittenWithinTTL("save_calculated_rate"))
       => op.result = "pair"

(* ------------------------------- C39 ----------------------------------- *)
\* C39: for a call of RatesCache.update_pair on a pair that has a record:
\* the stored updated_at after the call is not earlier than before it; when
\* the updated_at of the call is not strictly later than the stored one, the
\* record, last_refresh and the file are as before; when it is strictly
\* later, the record holds the rate, the source and the updated_at of the
\* call.
C39_UpdatedAtNeverDecreases ==
    (op.kind = "update_pair" /\ op.via = "cache"
        /\ <<upper(op.code), upper(op.to)>> \in DOMAIN op.seen.pairs)
    => LET key == <<upper(op.code), upper(op.to)>>
           before == op.seen
           after == op.rates_cache.data
       IN /\ key \in DOMAIN after.pairs
          /\ after.pairs[key].updated_at >= before.pairs[key].updated_at
          /\ op.written_at <= before.pairs[key].updated_at
             => after = before /\ rates = op.pre_rates
          /\ op.written_at > before.pairs[key].updated_at
             => /\ after.pairs[key] = [num |-> op.rate.num, den |-> op.rate.den,
                                       updated_at |-> op.written_at,
                                       source |-> op.source]
                /\ rates = after

\* a call with an earlier updated_at and another rate left the record alone
C39_Witness ==
    /\ op.kind = "update_pair" /\ op.via = "cache"
    /\ <<upper(op.code), upper(op.to)>> \in DOMAIN op.seen.pairs
    /\ op.written_at < op.seen.pairs[<<upper(op.code), upper(op.to)>>].updated_at
    /\ op.rate.num # op.seen.pairs[<<upper(op.code), upper(op.to)>>].num
    /\ op.rates_cache.data = op.seen

(* ------------------------------- C40 ----------------------------------- *)
\* C40: every wallet of every persisted portfolio has a currency code that
\* is in the currency registry.
C40_WalletCodesRegistered ==
    \A u \in DOMAIN portfolios :
        \A c \in DOMAIN portfolios[u] : c \in CURRENCY_REGISTRY
====
